---- MODULE Spec2Model ----
(***************************************************************************)
(* The workflow orchestration engine of orchestrator/workflow.py           *)
(* (WorkflowOrchestrator.handle_request / execute_workflow and the step    *)
(* executors), the WorkflowExecution / WorkflowStep records of             *)
(* shared/models.py and the publish / emit calls of shared/messaging.py.   *)
(*                                                                         *)
(* The engine runs on one asyncio event loop: code between two awaits runs *)
(* without interruption.  The control states are the awaits of             *)
(* execute_workflow ("status_update", "collaborator", "final_notification",*)
(* "emit_step_completed", "sleeping", "emit_step_failed",                  *)
(* "emit_completed") plus the head of the while loop ("loop") and the code *)
(* after it ("after_loop").                                                *)
(***************************************************************************)
EXTENDS Integers, Sequences, FiniteSets, TLC

\* ------------------------------------------------------------------ bounds
NumExecs == 2            \* execution ids that handle_request may hand out
MaxCustomLen == 2        \* longest caller-built step list
MaxRetriesBound == 3     \* largest max_retries of a caller-built step
MaxHandlers == 4         \* most handlers registered with one EventBus
MaxFaults == 3           \* failures and cancellations in the concurrent scenario
MaxMessages == 2         \* messages pushed to the queues by their producers
MaxCalls == 3            \* calls made on one object of shared/models.py

\* ------------------------------------------------------- program constants
DefaultMaxRetries == 3   \* WorkflowStep.max_retries default
BackoffBase == 2         \* asyncio.sleep(2 ** retry_count)
ConsumePause == 1        \* consume: asyncio.sleep(1) after an error

Execs == 1 .. NumExecs

\* --------------------------------------------------------------- records
\* WorkflowStep: the fields execute_workflow reads or writes.
WorkflowStep(id, type, deps, maxr) ==
    [step_id |-> id, step_type |-> type, dependencies |-> deps,
     retry_count |-> 0, max_retries |-> maxr]

\* A result payload (a dict in the source): the keys the engine or a later
\* executor reads.
Payload(kind, success, error) == [kind |-> kind, success |-> success, error |-> error]

\* An entry of WorkflowExecution.errors: the f-string's template and the
\* values formatted into it.
StepFailedMessage(step_id, error) ==
    [template |-> "Step {step_id} failed: {error}", step_id |-> step_id, error |-> error]
DependenciesMessage(step_id) ==
    [template |-> "Dependencies not satisfied for step {step_id}",
     step_id |-> step_id, error |-> ""]

\* A string is mentioned by a message when it was formatted into it.
Mentions(message, token) == token # "" /\ token \in {message.step_id, message.error}

\* The data passed to event_bus.emit.
Event(event_type, workflow_id, step_id, error) ==
    [event_type |-> event_type, workflow_id |-> workflow_id,
     step_id |-> step_id, error |-> error]

\* OperationStatus values; "none" is an execution not constructed yet.
PENDING == "pending"
PROCESSING == "processing"
COMPLETED == "completed"
FAILED == "failed"
CANCELLED == "cancelled"

\* ------------------------------------------------------- step building
WorkflowTypes == {"github", "code", "pr", "other"}

\* Slip: every later step of the github list depends on the first step
\* instead of on its predecessor.
StepsAllAfterNlp(workflow_type) ==
    <<WorkflowStep("nlp_processing", "nlp", {}, DefaultMaxRetries)>> \o
    (IF workflow_type = "github"
     THEN <<WorkflowStep("validate_permissions", "validation",
                         {"nlp_processing"}, DefaultMaxRetries),
            WorkflowStep("execute_github_operation", "github",
                         {"nlp_processing"}, DefaultMaxRetries),
            WorkflowStep("send_result_notification", "notification",
                         {"nlp_processing"}, DefaultMaxRetries)>>
     ELSE <<>>)

create_workflow_steps(workflow_type) ==
    <<WorkflowStep("nlp_processing", "nlp", {}, DefaultMaxRetries)>> \o
    (CASE workflow_type = "github" ->
            <<WorkflowStep("validate_permissions", "validation",
                           {"nlp_processing"}, DefaultMaxRetries),
              WorkflowStep("execute_github_operation", "github",
                           {"validate_permissions"}, DefaultMaxRetries),
              WorkflowStep("send_result_notification", "notification",
                           {"execute_github_operation"}, DefaultMaxRetries)>>
       [] workflow_type = "code" ->
            <<WorkflowStep("generate_code", "code_generation",
                           {"nlp_processing"}, DefaultMaxRetries),
              WorkflowStep("create_file_or_pr", "github",
                           {"generate_code"}, DefaultMaxRetries),
              WorkflowStep("send_code_notification", "notification",
                           {"create_file_or_pr"}, DefaultMaxRetries)>>
       [] workflow_type = "pr" ->
            <<WorkflowStep("analyze_pr_request", "pr_analysis",
                           {"nlp_processing"}, DefaultMaxRetries),
              WorkflowStep("execute_pr_operation", "github",
                           {"analyze_pr_request"}, DefaultMaxRetries),
              WorkflowStep("send_pr_notification", "notification",
                           {"execute_pr_operation"}, DefaultMaxRetries)>>
       [] OTHER -> <<>>)

\* Step lists a caller of execute_workflow builds itself: n steps s1..sn of
\* one step type and one max_retries, with one of four dependency shapes.
CustomTypes == {"nlp", "validation", "mystery"}
CustomShapes == {"none", "chain", "ghost", "forward"}
CustomName(i) == CASE i = 1 -> "s1" [] i = 2 -> "s2" [] i = 3 -> "s3" [] OTHER -> "s4"
CustomDependencies(shape, i, n) ==
    CASE shape = "chain" -> IF i > 1 THEN {CustomName(i - 1)} ELSE {}
      [] shape = "ghost" -> IF i = n THEN {"ghost"} ELSE {}
      [] shape = "forward" -> IF i = 1 /\ n > 1 THEN {CustomName(n)} ELSE {}
      [] OTHER -> {}
CustomSteps(n, type, shape, maxr) ==
    [i \in 1 .. n |-> WorkflowStep(CustomName(i), type,
                                   CustomDependencies(shape, i, n), maxr)]
CustomLists ==
    {CustomSteps(n, type, shape, maxr) :
        n \in 1 .. MaxCustomLen, type \in CustomTypes,
        shape \in CustomShapes, maxr \in 0 .. MaxRetriesBound}

\* ------------------------------------------------------------------ state
VARIABLES
    pc,               \* where each execution's task is
    steps,            \* WorkflowExecution.steps (with each step's retry_count)
    current_step,     \* WorkflowExecution.current_step
    status,           \* WorkflowExecution.status
    results,          \* WorkflowExecution.results
    errors,           \* WorkflowExecution.errors
    end_time,         \* WorkflowExecution.end_time is set
    cur,              \* execute_workflow's local current_step, as an index
    active_workflows, \* WorkflowOrchestrator.active_workflows (its keys)
    queue,            \* the Redis lists publish pushes to, by channel
    invocations,      \* history: executor invocations of each step
    sleeps,           \* history: the asyncio.sleep calls of the retry branch
    emitted,          \* history: the event_bus.emit calls
    cancelled,        \* history: the executions whose task was cancelled
    bus_log,          \* history: what each emit did, publish and handler calls
    event_handlers,   \* EventBus.event_handlers, of each process
    next_id,          \* how many messages the producers have pushed
    consumer,         \* the tasks that iterate MessageQueue.consume
    mq_log,           \* history: the pops, yields and drops of the consumers
    subscriptions,    \* the pattern each pub/sub subscriber has psubscribed to
    received,         \* history: what subscribe_notifications yielded to each
    repositories,     \* UserPreferences.repositories of one user
    operation,        \* one OperationResult
    blocks,           \* SlackMessage.blocks of one message (None is the empty list)
    redis_client,     \* MessageQueue.redis_client is set
    health,           \* where a health_check call of the MessageQueue is
    call_log          \* history: the calls made on these objects, with what they returned

\* The objects of shared/models.py and the MessageQueue's own connection.
lib_vars == <<repositories, operation, blocks, redis_client, health, call_log>>

\* Everything outside the orchestrator's executions, the lists and the bus.
mq_vars == <<event_handlers, next_id, consumer, mq_log, subscriptions, received, lib_vars>>

\* The variables of the orchestrator's executions.
engine_vars == <<pc, steps, current_step, status, results, errors, end_time, cur,
                 active_workflows, invocations, sleeps, emitted, cancelled>>

vars == <<pc, steps, current_step, status, results, errors, end_time, cur,
          active_workflows, queue, invocations, sleeps, emitted,
          cancelled, bus_log, mq_vars>>

Channels == {"operation_updates", "final_notifications",
             "events:workflow_step_completed", "events:workflow_step_failed",
             "events:workflow_completed", "events:*",
             "github_requests", "code_requests", "pr_requests",
             "notifications:alerts", "notifications:builds"}

\* Two tasks that iterate consume, and three pub/sub subscribers.
Consumers == {"c1", "c2"}
Subscribers == {"sub1", "sub2", "sub3"}

\* A consumer task that has not been started.
IdleConsumer == [pc |-> "off", channel |-> "", message |-> [raw |-> 0],
                 cancel |-> FALSE, pause |-> 0, role |-> ""]

EmptyMap == [x \in {} |-> Payload("", FALSE, "")]

\* The processes that own an EventBus: the one the orchestrator runs in and one
\* that only observes.
Processes == {"orchestrator", "observer"}

\* The event types the orchestrator emits.
EventTypes == {"workflow_step_completed", "workflow_step_failed", "workflow_completed"}

\* The handlers: the orchestrator's two, which only log, one more that returns
\* and one that raises.
Handlers == {"handle_step_completion", "handle_step_failure", "audit", "faulty"}
HandlerRaises(handler) == handler = "faulty"

\* An EventBus without handlers, and the registry after
\* WorkflowOrchestrator.__init__ has registered its two.
NoHandlers == [p \in Processes |-> [t \in {} |-> <<>>]]
OrchestratorHandlers ==
    [NoHandlers EXCEPT !["orchestrator"] =
        ("workflow_step_completed" :> <<"handle_step_completion">>)
        @@ ("workflow_step_failed" :> <<"handle_step_failure">>)]

\* Python's None, the empty dict and the empty string, as values of optional
\* arguments and fields (an Optional[datetime] or Optional[float] is <<>> for
\* None and <<value>> otherwise).
None == "None"
EmptyDict == "{}"
EmptyString == ""

\* The objects as their constructors leave them: UserPreferences(user_id),
\* OperationResult(operation_id, status=processing, success=False),
\* SlackMessage(channel_id, text), MessageQueue().
LibInit ==
    /\ repositories = <<>>
    /\ operation = [status |-> PROCESSING, success |-> FALSE, result_data |-> EmptyDict,
                    error_message |-> None, start_time |-> 0, end_time |-> <<>>,
                    processing_time |-> <<>>]
    /\ blocks = <<>>
    /\ redis_client = FALSE
    /\ health = [pc |-> "idle", latency |-> 0]
    /\ call_log = <<>>

Init ==
    /\ LibInit
    /\ pc = [e \in Execs |-> "idle"]
    /\ steps = [e \in Execs |-> <<>>]
    /\ current_step = [e \in Execs |-> 0]
    /\ status = [e \in Execs |-> "none"]
    /\ results = [e \in Execs |-> EmptyMap]
    /\ errors = [e \in Execs |-> <<>>]
    /\ end_time = [e \in Execs |-> FALSE]
    /\ cur = [e \in Execs |-> 0]
    /\ active_workflows = {}
    /\ queue = [c \in Channels |-> <<>>]
    /\ invocations = [e \in Execs |-> <<>>]
    /\ sleeps = [e \in Execs |-> <<>>]
    /\ emitted = [e \in Execs |-> <<>>]
    /\ cancelled = {}
    /\ bus_log = <<>>
    /\ event_handlers = OrchestratorHandlers
    /\ next_id = 0
    /\ consumer = [c \in Consumers |-> IdleConsumer]
    /\ mq_log = <<>>
    /\ subscriptions = [s \in Subscribers |-> ""]
    /\ received = [s \in Subscribers |-> <<>>]

\* --------------------------------------------------------- model helpers
\* Slip: the loop stops one step early.
is_completed_early(e) == current_step[e] + 1 >= Len(steps[e])

\* WorkflowExecution.is_completed
is_completed(e) == current_step[e] >= Len(steps[e])

\* WorkflowExecution.get_current_step (steps is 1-based here)
get_current_step(e) == steps[e][current_step[e] + 1]

\* Slip: "any" for "all" (a step without dependencies is never satisfied).
are_dependencies_satisfied_any(e, step) ==
    \E dep \in step.dependencies : dep \in DOMAIN results[e]

\* WorkflowOrchestrator.are_dependencies_satisfied
are_dependencies_satisfied(e, step) ==
    \A dep \in step.dependencies : dep \in DOMAIN results[e]

\* Slip: a message equal to one already in the list is not pushed again.
lpushIfAbsent(q, channel, message) ==
    IF \E k \in 1 .. Len(q[channel]) : q[channel][k] = message
    THEN q
    ELSE [q EXCEPT ![channel] = <<message>> \o @]

\* MessageQueue.publish: lpush puts the message at the head of the list.
lpush(q, channel, message) == [q EXCEPT ![channel] = <<message>> \o @]

\* Slip: <= for <, one attempt too many.
RetriesRemainOffByOne(step) == step.retry_count <= step.max_retries

\* The retry test of the except branch, after retry_count += 1.
RetriesRemain(step) == step.retry_count < step.max_retries

\* Slip: the exponent counts from zero.
BackoffDelayFromZero(retry_count) == BackoffBase ^ (retry_count - 1)

\* The backoff delay of the except branch.
BackoffDelay(retry_count) == BackoffBase ^ retry_count


\* The on-wire envelope publish wraps around a payload.
QueueMessage(data) == [data |-> data, priority |-> 0]

\* The payload send_status_update / send_final_notification publish.
Notice(kind, workflow_id, step_id) == Event(kind, workflow_id, step_id, "")

\* Slip: the list of some registered type is looked up, whatever the event's.
HandlersForAnyType(registry, event_type) ==
    IF DOMAIN registry = {} THEN <<>>
    ELSE registry[CHOOSE t \in DOMAIN registry : TRUE]

\* emit / listen_for_events: the handlers looked up for one event type.
HandlersFor(registry, event_type) ==
    IF event_type \in DOMAIN registry THEN registry[event_type] ELSE <<>>

\* EventBus.register_handler: append to the list of the type.
Registered(registry, event_type, handler) ==
    (event_type :> Append(HandlersFor(registry, event_type), handler)) @@ registry

\* One entry of bus_log.
BusEntry(process, op, event, handler) ==
    [process |-> process, op |-> op, event |-> event, handler |-> handler]

\* Variant: no try/except around the handler call, the first handler that
\* raises ends the loop and its exception leaves the caller.
RunHandlersUnguarded(process, handlers, event) ==
    LET firstBad == IF \E i \in 1 .. Len(handlers) : HandlerRaises(handlers[i])
                    THEN CHOOSE i \in 1 .. Len(handlers) :
                             /\ HandlerRaises(handlers[i])
                             /\ \A j \in 1 .. (i - 1) : ~HandlerRaises(handlers[j])
                    ELSE Len(handlers) IN
    [calls |-> [i \in 1 .. firstBad |-> BusEntry(process, "handler", event, handlers[i])],
     raised |-> \E i \in 1 .. Len(handlers) : HandlerRaises(handlers[i])]

\* The handler loop of emit and listen_for_events: every handler is called in
\* list order inside try/except Exception; nothing it raises leaves the loop.
RunHandlers(process, handlers, event) ==
    [calls |-> [i \in 1 .. Len(handlers) |-> BusEntry(process, "handler", event, handlers[i])],
     raised |-> FALSE]

\* Slip: the handlers run before the publish.
EmitLogHandlersFirst(process, event) ==
    RunHandlers(process, HandlersFor(event_handlers[process], event.event_type), event).calls
    \o <<BusEntry(process, "publish", event, "")>>

\* What one emit whose publish succeeded does, in order: the publish to
\* events:<event_type>, then the handlers of that type.
EmitLog(process, event) ==
    <<BusEntry(process, "publish", event, "")>>
    \o RunHandlers(process, HandlersFor(event_handlers[process], event.event_type), event).calls

\* Whether the handler loop of this emit lets an exception out.
EmitHandlersRaise(process, event) ==
    RunHandlers(process, HandlersFor(event_handlers[process], event.event_type), event).raised

\* Slip: the handlers are called although the publish raised.
emitDispatchingAnyway(event, publish_ok) ==
    /\ queue' = IF publish_ok
                THEN lpush(queue, "events:" \o event.event_type, QueueMessage(event))
                ELSE queue
    /\ bus_log' = IF publish_ok
                  THEN bus_log \o EmitLog("orchestrator", event)
                  ELSE bus_log \o RunHandlers("orchestrator",
                                              HandlersFor(event_handlers["orchestrator"],
                                                          event.event_type), event).calls

\* EventBus.emit, as the orchestrator's process calls it: publish (which may
\* raise, nothing else is done then), then the handlers.
emit(event, publish_ok) ==
    /\ queue' = IF publish_ok
                THEN lpush(queue, "events:" \o event.event_type, QueueMessage(event))
                ELSE queue
    /\ bus_log' = IF publish_ok THEN bus_log \o EmitLog("orchestrator", event) ELSE bus_log

\* Whether that emit raises to its caller.
EmitRaises(event, publish_ok) == ~publish_ok \/ EmitHandlersRaise("orchestrator", event)

\* The suspension points (awaits) of an execution's task.
Awaits == {"status_update", "collaborator", "final_notification",
           "emit_step_completed", "sleeping", "emit_step_failed", "emit_completed"}
Terminated(e) == pc[e] \in {"returned", "raised", "cancelled"}

\* The action collaborator's reply to a create_branch operation that
\* succeeded: {success: true, branch_name: b}.
BranchCreated ==
    [kind |-> "github", success |-> TRUE, error |-> "", branch_name |-> "auth-fix"]

\* What each collaborator can return (execute_nlp_step's process_natural_language,
\* execute_github_step's execute_github_operation, which catches every exception
\* and returns {"success": False, "error": ...}).
CollaboratorResults(step_type) ==
    CASE step_type = "nlp" -> {Payload("nlp", TRUE, "")}
      [] step_type = "github" -> {BranchCreated,
                                  Payload("github", FALSE, "not found")}
      [] OTHER -> {}

\* The collaborators that can raise: process_natural_language only.
CollaboratorErrors(step_type) ==
    CASE step_type = "nlp" -> {"nlp error"}
      [] OTHER -> {}

\* Variant: a reply with success = False is raised as the step's error.
ReplyRaisesOnFailure(step_type, reply) == step_type = "github" /\ ~reply.success

\* Whether an executor turns its collaborator's reply into an exception: none
\* does, execute_github_step does not look at reply["success"].
ReplyRaises(step_type, reply) == FALSE

\* execute_github_step reads nlp_result["processed_request"].
HasProcessedRequest(e) ==
    /\ "nlp_processing" \in DOMAIN results[e]
    /\ results[e]["nlp_processing"].kind = "nlp"

\* ---------------------------------------------------------------- actions
\* handle_request: build the steps, construct the execution with status
\* PROCESSING, store it in active_workflows, enter execute_workflow.
handle_request(e, workflow_type) ==
    /\ pc[e] = "idle"
    /\ steps' = [steps EXCEPT ![e] = create_workflow_steps(workflow_type)]
    /\ invocations' = [invocations EXCEPT
                         ![e] = [i \in 1 .. Len(create_workflow_steps(workflow_type)) |-> 0]]
    /\ status' = [status EXCEPT ![e] = PROCESSING]
    /\ active_workflows' = active_workflows \cup {e}
    /\ pc' = [pc EXCEPT ![e] = "loop"]
    /\ UNCHANGED <<current_step, results, errors, end_time, cur, queue, sleeps, emitted,
                   cancelled, bus_log, mq_vars>>

\* execute_workflow called on an execution its caller constructed (status
\* defaults to PENDING; the execution is not in active_workflows).
execute_workflow(e, step_list) ==
    /\ pc[e] = "idle"
    /\ steps' = [steps EXCEPT ![e] = step_list]
    /\ invocations' = [invocations EXCEPT ![e] = [i \in 1 .. Len(step_list) |-> 0]]
    /\ status' = [status EXCEPT ![e] = PENDING]
    /\ pc' = [pc EXCEPT ![e] = "loop"]
    /\ UNCHANGED <<current_step, results, errors, end_time, cur, active_workflows,
                   queue, sleeps, emitted,
                   cancelled, bus_log, mq_vars>>

\* Slip: advance_step() is missing.
StoreResultNoAdvance(e, i, result) ==
    LET step == steps[e][i + 1] IN
    /\ results' = [results EXCEPT ![e] = (step.step_id :> result) @@ @]
    /\ emitted' = [emitted EXCEPT
                     ![e] = Append(@, Event("workflow_step_completed", e, step.step_id, ""))]
    /\ pc' = [pc EXCEPT ![e] = "emit_step_completed"]
    /\ UNCHANGED <<steps, status, errors, end_time, active_workflows, sleeps, current_step,
                   cancelled, bus_log, mq_vars>>

\* Slip: results is rebound to a new mapping instead of being updated.
StoreResultReplacing(e, i, result) ==
    LET step == steps[e][i + 1] IN
    /\ results' = [results EXCEPT ![e] = (step.step_id :> result)]
    /\ current_step' = [current_step EXCEPT ![e] = @ + 1]
    /\ emitted' = [emitted EXCEPT
                     ![e] = Append(@, Event("workflow_step_completed", e, step.step_id, ""))]
    /\ pc' = [pc EXCEPT ![e] = "emit_step_completed"]
    /\ UNCHANGED <<steps, status, errors, end_time, active_workflows, sleeps,
                   cancelled, bus_log, mq_vars>>

\* Slip: results is one mapping shared by every execution (a class-level
\* dict), so a stored result shows in all of them.
StoreResultShared(e, i, result) ==
    LET step == steps[e][i + 1] IN
    /\ results' = [f \in Execs |-> (step.step_id :> result) @@ results[f]]
    /\ current_step' = [current_step EXCEPT ![e] = @ + 1]
    /\ emitted' = [emitted EXCEPT
                     ![e] = Append(@, Event("workflow_step_completed", e, step.step_id, ""))]
    /\ pc' = [pc EXCEPT ![e] = "emit_step_completed"]
    /\ UNCHANGED <<steps, status, errors, end_time, active_workflows, sleeps,
                   cancelled, bus_log, mq_vars>>

\* The try branch after execute_step returned: store the result, advance,
\* call emit("workflow_step_completed").  i is the local current_step.
StoreResult(e, i, result) ==
    LET step == steps[e][i + 1] IN
    /\ results' = [results EXCEPT ![e] = (step.step_id :> result) @@ @]
    /\ current_step' = [current_step EXCEPT ![e] = @ + 1]
    /\ emitted' = [emitted EXCEPT
                     ![e] = Append(@, Event("workflow_step_completed", e, step.step_id, ""))]
    /\ pc' = [pc EXCEPT ![e] = "emit_step_completed"]
    /\ UNCHANGED <<steps, status, errors, end_time, active_workflows, sleeps,
                   cancelled, bus_log, mq_vars>>

\* The except branch: retry_count += 1, then either sleep and continue, or
\* record the error, fail the execution and call emit("workflow_step_failed").
HandleException(e, i, error) ==
    LET step == [steps[e][i + 1] EXCEPT !.retry_count = @ + 1] IN
    /\ steps' = [steps EXCEPT ![e][i + 1] = step]
    /\ IF RetriesRemain(step)
       THEN /\ sleeps' = [sleeps EXCEPT
                            ![e] = Append(@, [step_id |-> step.step_id,
                                              retry_count |-> step.retry_count,
                                              delay |-> BackoffDelay(step.retry_count)])]
            /\ pc' = [pc EXCEPT ![e] = "sleeping"]
            /\ UNCHANGED <<errors, status, emitted,
                   mq_vars>>
       ELSE /\ errors' = [errors EXCEPT
                            ![e] = Append(@, StepFailedMessage(step.step_id, error))]
            /\ status' = [status EXCEPT ![e] = FAILED]
            /\ emitted' = [emitted EXCEPT
                             ![e] = Append(@, Event("workflow_step_failed", e,
                                                    step.step_id, error))]
            /\ pc' = [pc EXCEPT ![e] = "emit_step_failed"]
            /\ UNCHANGED sleeps
    /\ UNCHANGED <<current_step, results, end_time, active_workflows,
                   mq_vars>>

\* while not workflow.is_completed(): the loop ends.
LoopExit(e) ==
    /\ pc[e] = "loop"
    /\ is_completed(e)
    /\ pc' = [pc EXCEPT ![e] = "after_loop"]
    /\ UNCHANGED <<steps, current_step, status, results, errors, end_time, cur,
                   active_workflows, queue, invocations, sleeps, emitted,
                   cancelled, bus_log, mq_vars>>

\* The dependency check fails: record the error, fail, break.
DependenciesNotSatisfied(e) ==
    /\ pc[e] = "loop"
    /\ ~is_completed(e)
    /\ ~are_dependencies_satisfied(e, get_current_step(e))
    /\ errors' = [errors EXCEPT
                    ![e] = Append(@, DependenciesMessage(get_current_step(e).step_id))]
    /\ status' = [status EXCEPT ![e] = FAILED]
    /\ cur' = [cur EXCEPT ![e] = current_step[e]]
    /\ pc' = [pc EXCEPT ![e] = "after_loop"]
    /\ UNCHANGED <<steps, current_step, results, end_time, active_workflows, queue,
                   invocations, sleeps, emitted,
                   cancelled, bus_log, mq_vars>>

\* Slip: the ValueError does not say which type was unknown.
UnknownStepTypeUnnamed(step_type) == "Unknown step type"

\* str(e) of the ValueError execute_step raises for a type without executor.
UnknownStepType(step_type) == "Unknown step type: " \o step_type

\* execute_step: dispatch on step_type up to the executor's first await.
execute_step(e) ==
    /\ pc[e] = "loop"
    /\ ~is_completed(e)
    /\ are_dependencies_satisfied(e, get_current_step(e))
    /\ LET i == current_step[e]
           step_type == get_current_step(e).step_type IN
       /\ cur' = [cur EXCEPT ![e] = i]
       /\ invocations' = [invocations EXCEPT ![e][i + 1] = @ + 1]
       /\ UNCHANGED <<cancelled, bus_log>>
       /\ UNCHANGED queue
       /\ CASE step_type \in {"nlp", "github", "code_generation"} ->
                 /\ pc' = [pc EXCEPT ![e] = "status_update"]
                 /\ UNCHANGED <<steps, current_step, status, results, errors, end_time,
                                active_workflows, sleeps, emitted,
                   cancelled, bus_log, mq_vars>>
            [] step_type = "validation" ->
                 StoreResult(e, i, Payload("validation", TRUE, ""))
            [] step_type = "pr_analysis" ->
                 StoreResult(e, i, Payload("pr_analysis", TRUE, ""))
            [] step_type = "notification" ->
                 /\ pc' = [pc EXCEPT ![e] = "final_notification"]
                 /\ UNCHANGED <<steps, current_step, status, results, errors, end_time,
                                active_workflows, sleeps, emitted,
                   cancelled, bus_log, mq_vars>>
            [] OTHER -> HandleException(e, i, UnknownStepType(step_type))

\* send_status_update's publish returned.
StatusUpdatePublished(e) ==
    /\ pc[e] = "status_update"
    /\ LET step == steps[e][cur[e] + 1] IN
       /\ queue' = lpush(queue, "operation_updates",
                         QueueMessage(Notice("status", e, step.step_id)))
       /\ UNCHANGED <<cur, invocations,
                   cancelled, bus_log, mq_vars>>
       /\ CASE step.step_type = "code_generation" ->
                 StoreResult(e, cur[e], Payload("code_generation", TRUE, ""))
            [] step.step_type = "github" /\ ~HasProcessedRequest(e) ->
                 HandleException(e, cur[e], "KeyError processed_request")
            [] OTHER ->
                 /\ pc' = [pc EXCEPT ![e] = "collaborator"]
                 /\ UNCHANGED <<steps, current_step, status, results, errors, end_time,
                                active_workflows, sleeps, emitted,
                   cancelled, bus_log, mq_vars>>

\* A publish inside an executor raised a transport error.
PublishFailed(e) ==
    /\ pc[e] \in {"status_update", "final_notification"}
    /\ HandleException(e, cur[e], "transport error")
    /\ UNCHANGED <<cur, queue, invocations,
                   cancelled, bus_log, mq_vars>>

\* The collaborator returned: the executor returns what it got
\* (execute_github_step: result = await execute_github_operation(operation);
\* return result), whatever its "success" says.
CollaboratorReturned(e, reply) ==
    /\ pc[e] = "collaborator"
    /\ reply \in CollaboratorResults(steps[e][cur[e] + 1].step_type)
    /\ IF ReplyRaises(steps[e][cur[e] + 1].step_type, reply)
       THEN HandleException(e, cur[e], reply.error)
       ELSE StoreResult(e, cur[e], reply)
    /\ UNCHANGED <<cur, queue, invocations,
                   cancelled, bus_log, mq_vars>>

\* The collaborator raised.
CollaboratorRaised(e, error) ==
    /\ pc[e] = "collaborator"
    /\ error \in CollaboratorErrors(steps[e][cur[e] + 1].step_type)
    /\ HandleException(e, cur[e], error)
    /\ UNCHANGED <<cur, queue, invocations,
                   cancelled, bus_log, mq_vars>>

\* execute_notification_step's summary message, as the parts of its text:
\* it looks at the result stored under execute_github_operation only, and
\* there at success, pr_url and error.
NotificationMessage(e) ==
    IF "execute_github_operation" \in DOMAIN results[e]
    THEN LET github_result == results[e]["execute_github_operation"] IN
         IF github_result.success
         THEN <<"GitHub operation completed successfully!">> \o
              (IF "pr_url" \in DOMAIN github_result
               THEN <<"Pull Request: ", github_result.pr_url>>
               ELSE <<>>)
         ELSE <<"GitHub operation failed: ", github_result.error>>
    ELSE <<"Request processed successfully!">>

\* The notification_data send_final_notification publishes.
FinalNotice(e, step_id) ==
    [event_type |-> "final", workflow_id |-> e, step_id |-> step_id, error |-> "",
     message |-> NotificationMessage(e), results |-> results[e]]

\* send_final_notification's publish returned: execute_notification_step returns.
FinalNotificationPublished(e) ==
    /\ pc[e] = "final_notification"
    /\ queue' = lpush(queue, "final_notifications",
                      QueueMessage(FinalNotice(e, steps[e][cur[e] + 1].step_id)))
    /\ StoreResult(e, cur[e], Payload("notification", TRUE, ""))
    /\ UNCHANGED <<cur, invocations,
                   cancelled, bus_log, mq_vars>>

\* emit("workflow_step_completed") returned: next iteration.
EmitStepCompletedReturned(e) ==
    /\ pc[e] = "emit_step_completed"
    /\ ~EmitRaises(emitted[e][Len(emitted[e])], TRUE)
    /\ emit(emitted[e][Len(emitted[e])], TRUE)
    /\ pc' = [pc EXCEPT ![e] = "loop"]
    /\ UNCHANGED <<steps, current_step, status, results, errors, end_time, cur,
                   active_workflows, invocations, sleeps, emitted, cancelled, mq_vars>>

\* emit("workflow_step_completed") raised (its publish failed): the except
\* branch runs for the step that has just been recorded.
EmitStepCompletedRaised(e) ==
    /\ pc[e] = "emit_step_completed"
    /\ \E publish_ok \in BOOLEAN :
           /\ EmitRaises(emitted[e][Len(emitted[e])], publish_ok)
           /\ emit(emitted[e][Len(emitted[e])], publish_ok)
           /\ HandleException(e, cur[e], IF publish_ok THEN "handler error"
                                                       ELSE "transport error")
    /\ UNCHANGED <<cur, invocations, cancelled>>

\* asyncio.sleep returned: continue.
SleepReturned(e) ==
    /\ pc[e] = "sleeping"
    /\ pc' = [pc EXCEPT ![e] = "loop"]
    /\ UNCHANGED <<steps, current_step, status, results, errors, end_time, cur,
                   active_workflows, queue, invocations, sleeps, emitted,
                   cancelled, bus_log, mq_vars>>

\* emit("workflow_step_failed") returned: break.
EmitStepFailedReturned(e) ==
    /\ pc[e] = "emit_step_failed"
    /\ ~EmitRaises(emitted[e][Len(emitted[e])], TRUE)
    /\ emit(emitted[e][Len(emitted[e])], TRUE)
    /\ pc' = [pc EXCEPT ![e] = "after_loop"]
    /\ UNCHANGED <<steps, current_step, status, results, errors, end_time, cur,
                   active_workflows, invocations, sleeps, emitted, cancelled, mq_vars>>

\* An emit outside the try block raised: the exception leaves execute_workflow
\* and handle_request.
EmitRaisedOut(e) ==
    /\ pc[e] \in {"emit_step_failed", "emit_completed"}
    /\ \E publish_ok \in BOOLEAN :
           /\ EmitRaises(emitted[e][Len(emitted[e])], publish_ok)
           /\ emit(emitted[e][Len(emitted[e])], publish_ok)
    /\ pc' = [pc EXCEPT ![e] = "raised"]
    /\ UNCHANGED <<steps, current_step, status, results, errors, end_time, cur,
                   active_workflows, invocations, sleeps, emitted, cancelled, mq_vars>>

\* Slip: the status test is missing.
ShouldMarkCompletedIgnoringFailure(e) == is_completed(e)

\* if workflow.is_completed() and workflow.status != OperationStatus.FAILED
ShouldMarkCompleted(e) == is_completed(e) /\ status[e] # FAILED

\* After the loop: mark completed and call emit("workflow_completed") ...
MarkCompleted(e) ==
    /\ pc[e] = "after_loop"
    /\ ShouldMarkCompleted(e)
    /\ status' = [status EXCEPT ![e] = COMPLETED]
    /\ end_time' = [end_time EXCEPT ![e] = TRUE]
    /\ emitted' = [emitted EXCEPT ![e] = Append(@, Event("workflow_completed", e, "", ""))]
    /\ pc' = [pc EXCEPT ![e] = "emit_completed"]
    /\ UNCHANGED <<steps, current_step, results, errors, cur, active_workflows, queue,
                   invocations, sleeps,
                   cancelled, bus_log, mq_vars>>

\* ... or go straight to the clean-up; execute_workflow returns.
CleanUpFailed(e) ==
    /\ pc[e] = "after_loop"
    /\ ~ShouldMarkCompleted(e)
    /\ active_workflows' = active_workflows \ {e}
    /\ pc' = [pc EXCEPT ![e] = "returned"]
    /\ UNCHANGED <<steps, current_step, status, results, errors, end_time, cur, queue,
                   invocations, sleeps, emitted,
                   cancelled, bus_log, mq_vars>>

\* emit("workflow_completed") returned: clean up; execute_workflow returns.
EmitCompletedReturned(e) ==
    /\ pc[e] = "emit_completed"
    /\ ~EmitRaises(emitted[e][Len(emitted[e])], TRUE)
    /\ emit(emitted[e][Len(emitted[e])], TRUE)
    /\ active_workflows' = active_workflows \ {e}
    /\ pc' = [pc EXCEPT ![e] = "returned"]
    /\ UNCHANGED <<steps, current_step, status, results, errors, end_time, cur,
                   invocations, sleeps, emitted, cancelled, mq_vars>>

\* Variant: CancelledError derives from Exception (as it did before Python 3.8).
ExceptExceptionCatchesAll(error) == TRUE

\* Whether "except Exception" catches what an await raised: everything the
\* collaborators and the transport raise, but not asyncio.CancelledError,
\* which derives from BaseException.
ExceptExceptionCatches(error) == error # "CancelledError"

\* The awaits of execute_workflow that are inside its try block.
AwaitsInTry == {"status_update", "collaborator", "final_notification",
                "emit_step_completed"}

\* The task is cancelled at one of its awaits (task.cancel() makes the await
\* raise CancelledError): no except branch catches it, it leaves
\* execute_workflow and handle_request, nothing is written.
Cancel(e) ==
    /\ pc[e] \in Awaits
    /\ cancelled' = cancelled \cup {e}
    /\ IF pc[e] \in AwaitsInTry /\ ExceptExceptionCatches("CancelledError")
       THEN HandleException(e, cur[e], "CancelledError")
       ELSE /\ pc' = [pc EXCEPT ![e] = "cancelled"]
            /\ UNCHANGED <<steps, current_step, status, results, errors, end_time,
                           active_workflows, sleeps, emitted, mq_vars>>
    /\ UNCHANGED <<cur, queue, invocations, bus_log>>

\* workflow.status.value, as <<value>>, or <<>> when the attribute read
\* raises: with use_enum_values the constructor stores the status it is
\* given as the plain string (handle_request passes PROCESSING), which has
\* no attribute value; the field's default and the members execute_workflow
\* assigns later are stored as OperationStatus members.
StatusValue(execution_id) ==
    IF status[execution_id] = PROCESSING THEN <<>> ELSE <<status[execution_id]>>

\* get_workflow_status: None (here <<>>) unless the execution is active;
\* for an active one the mapping it returns, or the AttributeError it raises.
get_workflow_status(execution_id) ==
    IF execution_id \in active_workflows
    THEN IF StatusValue(execution_id) = <<>>
         THEN <<[raised |-> "AttributeError"]>>
         ELSE <<[execution_id |-> execution_id,
                 status |-> StatusValue(execution_id)[1],
                 current_step |-> current_step[execution_id],
                 total_steps |-> Len(steps[execution_id])]>>
    ELSE <<>>

\* One execution is started, by handle_request or by a direct caller; it gets
\* a fresh execution id (uuid4), here the lowest one.
NoneStarted == \A e \in Execs : pc[e] = "idle"
FreshId(e) == NoneStarted /\ \A f \in Execs : e <= f

\* The steps of an execution that has been started.
Run(e) ==
    \/ LoopExit(e)
    \/ DependenciesNotSatisfied(e)
    \/ execute_step(e)
    \/ StatusUpdatePublished(e)
    \/ PublishFailed(e)
    \/ \E result \in CollaboratorResults("nlp") \cup CollaboratorResults("github") :
           CollaboratorReturned(e, result)
    \/ \E error \in CollaboratorErrors("nlp") : CollaboratorRaised(e, error)
    \/ FinalNotificationPublished(e)
    \/ EmitStepCompletedReturned(e)
    \/ EmitStepCompletedRaised(e)
    \/ SleepReturned(e)
    \/ EmitStepFailedReturned(e)
    \/ EmitRaisedOut(e)
    \/ MarkCompleted(e)
    \/ CleanUpFailed(e)
    \/ EmitCompletedReturned(e)
    \/ Cancel(e)

Next ==
    \E e \in Execs :
        \/ \E workflow_type \in WorkflowTypes : FreshId(e) /\ handle_request(e, workflow_type)
        \/ \E step_list \in CustomLists : FreshId(e) /\ execute_workflow(e, step_list)
        \/ Run(e)

Spec == Init /\ [][Next]_vars

\* ------------------------------------------------- the event bus, registering
\* The number of handlers an EventBus holds.
HandlerCount(registry) ==
    Len(HandlersFor(registry, "workflow_step_completed"))
    + Len(HandlersFor(registry, "workflow_step_failed"))
    + Len(HandlersFor(registry, "workflow_completed"))

\* EventBus.register_handler, called before the orchestrator handles requests.
register_handler(process, event_type, handler) ==
    /\ NoneStarted
    /\ HandlerCount(event_handlers[process]) < MaxHandlers
    /\ event_handlers' = [event_handlers EXCEPT
                             ![process] = Registered(@, event_type, handler)]
    /\ UNCHANGED <<engine_vars, lib_vars, queue, bus_log, next_id, consumer, mq_log,
                   subscriptions, received>>

\* Two step lists that between them reach every emit: one step that may fail
\* followed by a notification, and a step whose dependency nothing produces.
BusLists ==
    {<<WorkflowStep("s1", "nlp", {}, 2), WorkflowStep("s2", "notification", {"s1"}, 2)>>,
     <<WorkflowStep("s1", "nlp", {"ghost"}, 2)>>}

\* Handlers are registered with the orchestrator's EventBus, then one
\* execution runs.
NextBus ==
    \/ \E event_type \in EventTypes, handler \in {"audit", "faulty"} :
           register_handler("orchestrator", event_type, handler)
    \/ \E e \in Execs :
           \/ \E step_list \in BusLists : FreshId(e) /\ execute_workflow(e, step_list)
           \/ Run(e)

SpecBus == Init /\ [][NextBus]_vars

\* ------------------------------------------------------- the message queue
\* The envelope MessageQueue.publish writes: {data, priority, timestamp}.
Envelope(data, priority) == [data |-> data, priority |-> priority]

\* A list element no publish wrote: json.loads or message_data["data"] fails.
Garbage(id) == [raw |-> id]
NoMessage == Garbage(0)

\* json.loads(message_str) succeeds and the result has a "data" key.
Decodable(message) == "data" \in DOMAIN message

\* The priorities a publish can carry.
Priorities == {0, 5}

\* The channels the producers of this scenario push to.
WorkChannels == {"github_requests"}

\* One entry of mq_log.
MQEntry(op, c, channel, message) ==
    [op |-> op, consumer |-> c, channel |-> channel, message |-> message]

\* Slip: lpop for brpop, the newest message first.
lpop(q, channel) ==
    [message |-> Head(q[channel]), rest |-> [q EXCEPT ![channel] = Tail(@)]]

\* redis brpop: take the element at the tail of the list.
brpop(q, channel) ==
    [message |-> q[channel][Len(q[channel])],
     rest |-> [q EXCEPT ![channel] = SubSeq(@, 1, Len(@) - 1)]]

\* Slip: an error ends the generator.
ConsumeEndsOnError(task) == [task EXCEPT !.pc = "ended", !.message = NoMessage]

\* consume's except Exception branch: log, then await asyncio.sleep(1).
AfterConsumeError(task) ==
    [task EXCEPT !.pc = "pause", !.pause = ConsumePause, !.message = NoMessage]

\* Variant: a message whose handler raised is pushed back.
RequeueOnFailure(q, channel, message) == lpush(q, channel, message)

\* The except branch of the consumer loops (process_github_requests and its
\* siblings): the error is logged, the queue is left alone.
AfterHandlerRaised(q, channel, message) == q

\* A producer calls publish(channel, message, priority).
publish(channel, priority) ==
    /\ next_id < MaxMessages
    /\ next_id' = next_id + 1
    /\ queue' = lpush(queue, channel, Envelope(next_id + 1, priority))
    /\ UNCHANGED <<engine_vars, lib_vars, bus_log, event_handlers, consumer, mq_log,
                   subscriptions, received>>

\* Another Redis client pushes something that is not an envelope.
ForeignPush(channel) ==
    /\ next_id < MaxMessages
    /\ next_id' = next_id + 1
    /\ queue' = lpush(queue, channel, Garbage(next_id + 1))
    /\ UNCHANGED <<engine_vars, lib_vars, bus_log, event_handlers, consumer, mq_log,
                   subscriptions, received>>

\* A task starts iterating consume(channel): it reaches the brpop.
consume(c, channel) ==
    /\ consumer[c].pc = "off"
    /\ consumer' = [consumer EXCEPT ![c] = [@ EXCEPT !.pc = "brpop", !.channel = channel,
                                                       !.role = "worker"]]
    /\ UNCHANGED <<engine_vars, lib_vars, queue, bus_log, event_handlers, next_id, mq_log,
                   subscriptions, received>>

\* The server serves the task's brpop: the tail element leaves the list; the
\* task is still suspended in its await.
BrpopServed(c) ==
    /\ consumer[c].pc = "brpop"
    /\ queue[consumer[c].channel] # <<>>
    /\ LET popped == brpop(queue, consumer[c].channel) IN
       /\ queue' = popped.rest
       /\ consumer' = [consumer EXCEPT ![c] = [@ EXCEPT !.pc = "served",
                                                         !.message = popped.message]]
       /\ mq_log' = Append(mq_log, MQEntry("pop", c, consumer[c].channel, popped.message))
    /\ UNCHANGED <<engine_vars, lib_vars, bus_log, event_handlers, next_id, subscriptions, received>>

\* The brpop raised (a transport error): the except Exception branch.
BrpopRaised(c) ==
    /\ consumer[c].pc = "brpop"
    /\ consumer' = [consumer EXCEPT ![c] = AfterConsumeError(@)]
    /\ UNCHANGED <<engine_vars, lib_vars, queue, bus_log, event_handlers, next_id, mq_log,
                   subscriptions, received>>

\* The task resumes with the reply of its brpop: json.loads, then either the
\* yield of message_data["data"] or, for what does not decode, the except
\* Exception branch; the message is gone either way.
Resumed(c) ==
    /\ consumer[c].pc = "served"
    /\ IF Decodable(consumer[c].message)
       THEN /\ consumer' = [consumer EXCEPT ![c] = [@ EXCEPT !.pc = "body"]]
            /\ mq_log' = Append(mq_log, MQEntry("yield", c, consumer[c].channel,
                                                consumer[c].message))
       ELSE /\ consumer' = [consumer EXCEPT ![c] = AfterConsumeError(@)]
            /\ mq_log' = Append(mq_log, MQEntry("drop", c, consumer[c].channel,
                                                consumer[c].message))
    /\ UNCHANGED <<engine_vars, lib_vars, queue, bus_log, event_handlers, next_id,
                   subscriptions, received>>

\* asyncio.sleep(1) returned: the while loop goes round to the brpop.
PauseOver(c) ==
    /\ consumer[c].pc = "pause"
    /\ consumer' = [consumer EXCEPT ![c] = [@ EXCEPT !.pc = "brpop", !.pause = 0]]
    /\ UNCHANGED <<engine_vars, lib_vars, queue, bus_log, event_handlers, next_id, mq_log,
                   subscriptions, received>>

\* The body of the async for returned: the generator resumes after its yield
\* and goes round to the brpop.
BodyReturned(c) ==
    /\ consumer[c].pc = "body"
    /\ consumer[c].role = "worker"
    /\ consumer' = [consumer EXCEPT ![c] = [@ EXCEPT !.pc = "brpop",
                                                     !.message = NoMessage]]
    /\ UNCHANGED <<engine_vars, lib_vars, queue, bus_log, event_handlers, next_id, mq_log,
                   subscriptions, received>>

\* Slip: the body of the async for has no try, the exception ends the loop.
LoopEndsOnError(task) == [task EXCEPT !.pc = "ended", !.message = NoMessage]

\* try ... except Exception around the body of the async for: the error is
\* logged and the for statement asks the generator for the next message.
LoopGoesOn(task) == [task EXCEPT !.pc = "brpop", !.message = NoMessage]

\* The handler called in the body raised: the loop's own except Exception
\* logs it; the generator resumes as after a return.
BodyRaised(c) ==
    /\ consumer[c].pc = "body"
    /\ consumer[c].role = "worker"
    /\ queue' = AfterHandlerRaised(queue, consumer[c].channel, consumer[c].message)
    /\ mq_log' = Append(mq_log, MQEntry("raised", c, consumer[c].channel,
                                        consumer[c].message))
    /\ consumer' = [consumer EXCEPT ![c] = LoopGoesOn(@)]
    /\ UNCHANGED <<engine_vars, lib_vars, bus_log, event_handlers, next_id, subscriptions, received>>

\* The consuming task is cancelled.  In the brpop the generator's except
\* asyncio.CancelledError breaks out of the loop; in the sleep of the except
\* branch and in the body of the async for the CancelledError leaves the task.
CancelConsumer(c) ==
    /\ consumer[c].pc \in {"brpop", "served", "pause", "body"}
    /\ consumer' = [consumer EXCEPT
                       ![c] = [@ EXCEPT !.pc = IF consumer[c].pc \in {"brpop", "served"}
                                               THEN "ended" ELSE "cancelled",
                                        !.cancel = TRUE,
                                        !.pause = 0,
                                        !.message = NoMessage]]
    /\ UNCHANGED <<engine_vars, lib_vars, queue, bus_log, event_handlers, next_id, mq_log,
                   subscriptions, received>>

\* Producers, another client and competing consumers on the work channels.
NextMQ ==
    \/ \E channel \in WorkChannels, priority \in Priorities : publish(channel, priority)
    \/ \E channel \in WorkChannels : ForeignPush(channel)
    \/ \E c \in Consumers :
           \/ \E channel \in WorkChannels : consume(c, channel)
           \/ BrpopServed(c)
           \/ BrpopRaised(c)
           \/ Resumed(c)
           \/ PauseOver(c)
           \/ BodyReturned(c)
           \/ BodyRaised(c)
           \/ CancelConsumer(c)

SpecMQ == Init /\ [][NextMQ]_vars

\* ------------------------------------------- the orchestrator's consumer loops
\* start(): process_github_requests and process_code_requests run as two
\* tasks (process_pr_requests is a third of the same shape).
LoopChannel(c) == IF c = "c1" THEN "github_requests" ELSE "code_requests"
LoopType(c) == IF c = "c1" THEN "github" ELSE "code"

\* The loops have been started and wait in their brpop.
InitConc ==
    /\ LibInit
    /\ pc = [e \in Execs |-> "idle"]
    /\ steps = [e \in Execs |-> <<>>]
    /\ current_step = [e \in Execs |-> 0]
    /\ status = [e \in Execs |-> "none"]
    /\ results = [e \in Execs |-> EmptyMap]
    /\ errors = [e \in Execs |-> <<>>]
    /\ end_time = [e \in Execs |-> FALSE]
    /\ cur = [e \in Execs |-> 0]
    /\ active_workflows = {}
    /\ queue = [c \in Channels |-> <<>>]
    /\ invocations = [e \in Execs |-> <<>>]
    /\ sleeps = [e \in Execs |-> <<>>]
    /\ emitted = [e \in Execs |-> <<>>]
    /\ cancelled = {}
    /\ bus_log = <<>>
    /\ event_handlers = OrchestratorHandlers
    /\ next_id = 0
    /\ consumer = [c \in Consumers |->
                      [IdleConsumer EXCEPT !.pc = "brpop", !.channel = LoopChannel(c),
                                           !.role = "worker"]]
    /\ mq_log = <<>>
    /\ subscriptions = [s \in Subscribers |-> ""]
    /\ received = [s \in Subscribers |-> <<>>]

\* The failures and cancellations that have happened so far: every failure
\* either counts a retry or leaves handle_request as an exception.
RECURSIVE RetrySum(_, _)
RetrySum(step_list, n) ==
    IF n = 0 THEN 0 ELSE step_list[n].retry_count + RetrySum(step_list, n - 1)
RECURSIVE FaultsOf(_)
FaultsOf(execs) ==
    IF execs = {} THEN 0
    ELSE LET e == CHOOSE x \in execs : TRUE IN
         RetrySum(steps[e], Len(steps[e])) + (IF pc[e] \in {"raised", "cancelled"} THEN 1 ELSE 0)
         + FaultsOf(execs \ {e})
\* Failures and cancellations strike the first execution, at most MaxFaults
\* of them; the others meet none.
FaultsLeft(e) ==
    /\ e = 1
    /\ FaultsOf(Execs) < MaxFaults

\* The execution handle_request creates for the request a loop has received:
\* a fresh uuid4, here the number of the request.
ExecutionOf(c) == consumer[c].message.data

\* The slack bot publishes a request.
PublishRequest(channel) ==
    /\ next_id < NumExecs
    /\ publish(channel, 0)

\* SlackRequest(**message) accepts the data: user_id, channel_id and command
\* are there.  Data that lacks them is numbered below zero.
ValidRequest(message) == message.data > 0

\* Some producer publishes data that is no SlackRequest (a required field is
\* missing).
PublishMalformed(channel) ==
    /\ next_id < NumExecs
    /\ next_id < MaxMessages
    /\ next_id' = next_id + 1
    /\ queue' = lpush(queue, channel, Envelope(0 - (next_id + 1), 0))
    /\ UNCHANGED <<engine_vars, lib_vars, bus_log, event_handlers, consumer, mq_log,
                   subscriptions, received>>

\* Something that is not an envelope lands in the list.
PushGarbage(channel) ==
    /\ next_id < NumExecs
    /\ ForeignPush(channel)

\* The body of a loop: request = SlackRequest(**message), handle_request.
StartRequest(c) ==
    /\ consumer[c].pc = "body"
    /\ ValidRequest(consumer[c].message)
    /\ pc[ExecutionOf(c)] = "idle"
    /\ handle_request(ExecutionOf(c), LoopType(c))

\* The body of a loop: SlackRequest(**message) raises a ValidationError (or
\* a TypeError), which the loop's except Exception logs.
RequestRejected(c) ==
    /\ consumer[c].pc = "body"
    /\ ~ValidRequest(consumer[c].message)
    /\ BodyRaised(c)

\* await self.handle_request(request): the body of the loop goes on when
\* handle_request has returned or raised.
RequestHandled(e) == pc[e] \in {"returned", "raised"}

\* The body is over: handle_request returned, or raised into the loop's
\* except Exception.
RequestDone(c) ==
    /\ consumer[c].pc = "body"
    /\ ValidRequest(consumer[c].message)
    /\ RequestHandled(ExecutionOf(c))
    /\ IF pc[ExecutionOf(c)] = "raised" THEN BodyRaised(c) ELSE BodyReturned(c)

\* The steps of the executions the loops drive, failures and cancellations
\* within the budget.
RunWithin(e) ==
    \/ LoopExit(e)
    \/ execute_step(e)
    \/ StatusUpdatePublished(e)
    \/ FaultsLeft(e) /\ PublishFailed(e)
    \/ \E result \in CollaboratorResults("nlp") \cup CollaboratorResults("github") :
           CollaboratorReturned(e, result)
    \/ \E error \in CollaboratorErrors("nlp") : FaultsLeft(e) /\ CollaboratorRaised(e, error)
    \/ FinalNotificationPublished(e)
    \/ EmitStepCompletedReturned(e)
    \/ FaultsLeft(e) /\ EmitStepCompletedRaised(e)
    \/ SleepReturned(e)
    \/ EmitStepFailedReturned(e)
    \/ FaultsLeft(e) /\ EmitRaisedOut(e)
    \/ MarkCompleted(e)
    \/ CleanUpFailed(e)
    \/ EmitCompletedReturned(e)
    \/ FaultsLeft(e) /\ Cancel(e)

\* Requests arrive on github_requests; process_github_requests handles them.
NextLoops ==
    \/ PublishRequest("github_requests")
    \/ PublishMalformed("github_requests")
    \/ PushGarbage("github_requests")
    \/ \E c \in Consumers :
           \/ BrpopServed(c)
           \/ Resumed(c)
           \/ PauseOver(c)
           \/ StartRequest(c)
           \/ RequestRejected(c)
           \/ RequestDone(c)
    \/ \E e \in Execs : RunWithin(e)

SpecLoops == InitConc /\ [][NextLoops]_vars

\* -------------------------------------------- concurrent handle_request calls
\* Several callers await handle_request at once (one per consumer loop, or any
\* other task of the process): each call gets a fresh execution id, here the
\* next free number, and its steps interleave with the others' at the awaits.
NextFreeId(e) ==
    /\ pc[e] = "idle"
    /\ \A f \in Execs : f < e => pc[f] # "idle"

NextConc ==
    \E e \in Execs :
        \/ NextFreeId(e) /\ handle_request(e, "other")
        \/ LoopExit(e)
        \/ execute_step(e)
        \/ StatusUpdatePublished(e)
        \/ FaultsLeft(e) /\ PublishFailed(e)
        \/ \E result \in CollaboratorResults("nlp") : CollaboratorReturned(e, result)
        \/ \E error \in CollaboratorErrors("nlp") : FaultsLeft(e) /\ CollaboratorRaised(e, error)
        \/ EmitStepCompletedReturned(e)
        \/ FaultsLeft(e) /\ EmitStepCompletedRaised(e)
        \/ SleepReturned(e)
        \/ EmitStepFailedReturned(e)
        \/ FaultsLeft(e) /\ EmitRaisedOut(e)
        \/ MarkCompleted(e)
        \/ CleanUpFailed(e)
        \/ EmitCompletedReturned(e)
        \/ FaultsLeft(e) /\ Cancel(e)

SpecConc == Init /\ [][NextConc]_vars

\* ------------------------------------------------------------ notifications
\* The channel names given to publish_notification, the patterns given to
\* subscribe_notifications (the first is its default).
NotificationChannels == {"alerts", "builds"}
Patterns == {"notifications:*", "notifications:alerts"}

\* Redis glob matching of a pattern against a key, for these patterns.
Matches(pattern, key) ==
    \/ pattern = key
    \/ pattern = "notifications:*"
           /\ key \in {"notifications:" \o channel : channel \in NotificationChannels}

\* The subscribers the server hands a message to when it executes a command
\* on a key: PUBLISH is broadcast to the matching subscriptions, a list
\* command such as LPUSH is broadcast to nobody.
Broadcast(command, key) ==
    IF command = "PUBLISH"
    THEN {s \in Subscribers : subscriptions[s] \in Patterns /\ Matches(subscriptions[s], key)}
    ELSE {}

\* publish_notification: self.publish(f"notifications:{channel}", notification),
\* that is an LPUSH of the envelope.
publish_notification(channel) ==
    LET key == "notifications:" \o channel IN
    /\ next_id < MaxMessages
    /\ next_id' = next_id + 1
    /\ queue' = lpush(queue, key, Envelope(next_id + 1, 0))
    /\ received' = [s \in Subscribers |->
                       IF s \in Broadcast("LPUSH", key)
                       THEN Append(received[s], next_id + 1)
                       ELSE received[s]]
    /\ UNCHANGED <<engine_vars, lib_vars, bus_log, event_handlers, consumer, mq_log, subscriptions>>

\* subscribe_notifications: psubscribe(pattern), then wait for pmessages.
subscribe_notifications(s, pattern) ==
    /\ subscriptions[s] = ""
    /\ subscriptions' = [subscriptions EXCEPT ![s] = pattern]
    /\ UNCHANGED <<engine_vars, lib_vars, queue, bus_log, event_handlers, next_id, consumer,
                   mq_log, received>>

\* The subscriber's generator is closed: the finally block unsubscribes.
close_subscription(s) ==
    /\ subscriptions[s] \in Patterns
    /\ subscriptions' = [subscriptions EXCEPT ![s] = "closed"]
    /\ UNCHANGED <<engine_vars, lib_vars, queue, bus_log, event_handlers, next_id, consumer,
                   mq_log, received>>

NextNotify ==
    \/ \E channel \in NotificationChannels : publish_notification(channel)
    \/ \E s \in Subscribers :
           \/ \E pattern \in Patterns : subscribe_notifications(s, pattern)
           \/ close_subscription(s)

SpecNotify == Init /\ [][NextNotify]_vars

\* --------------------------------------------------- listening for events
\* The patterns given to listen_for_events (the first is its default) and the
\* event types emitted in this scenario.
EventPatterns == {"*", "workflow_completed"}
ListenTypes == {"workflow_completed", "workflow_step_failed"}

\* The registries of this scenario: the observer has handlers for both types.
ObserverHandlers ==
    [OrchestratorHandlers EXCEPT !["observer"] =
        ("workflow_completed" :> <<"audit", "faulty">>)
        @@ ("workflow_step_failed" :> <<"audit">>)]

InitListen ==
    /\ LibInit
    /\ pc = [e \in Execs |-> "idle"]
    /\ steps = [e \in Execs |-> <<>>]
    /\ current_step = [e \in Execs |-> 0]
    /\ status = [e \in Execs |-> "none"]
    /\ results = [e \in Execs |-> EmptyMap]
    /\ errors = [e \in Execs |-> <<>>]
    /\ end_time = [e \in Execs |-> FALSE]
    /\ cur = [e \in Execs |-> 0]
    /\ active_workflows = {}
    /\ queue = [c \in Channels |-> <<>>]
    /\ invocations = [e \in Execs |-> <<>>]
    /\ sleeps = [e \in Execs |-> <<>>]
    /\ emitted = [e \in Execs |-> <<>>]
    /\ cancelled = {}
    /\ bus_log = <<>>
    /\ event_handlers = ObserverHandlers
    /\ next_id = 0
    /\ consumer = [c \in Consumers |-> IdleConsumer]
    /\ mq_log = <<>>
    /\ subscriptions = [s \in Subscribers |-> ""]
    /\ received = [s \in Subscribers |-> <<>>]

\* The orchestrator's process emits an event; its publish succeeds.
EmitEvent(event_type) ==
    /\ next_id < MaxMessages
    /\ next_id' = next_id + 1
    /\ emit(Event(event_type, next_id + 1, "", ""), TRUE)
    /\ UNCHANGED <<engine_vars, lib_vars, event_handlers, consumer, mq_log, subscriptions, received>>

\* The observer's process starts listen_for_events(event_pattern): it
\* iterates consume(f"events:{event_pattern}"), a brpop on that very key.
listen_for_events(c, event_pattern) ==
    /\ consumer[c].pc = "off"
    /\ consumer' = [consumer EXCEPT ![c] = [@ EXCEPT !.pc = "brpop",
                                                     !.channel = "events:" \o event_pattern,
                                                     !.role = "listener"]]
    /\ UNCHANGED <<engine_vars, lib_vars, queue, bus_log, event_handlers, next_id, mq_log,
                   subscriptions, received>>

\* The body of listen_for_events' loop: the handlers the observer registered
\* for the message's event_type are called, then the generator is resumed.
ListenerDispatched(c) ==
    /\ consumer[c].pc = "body"
    /\ consumer[c].role = "listener"
    /\ LET event == consumer[c].message.data IN
       bus_log' = bus_log \o RunHandlers("observer",
                                         HandlersFor(event_handlers["observer"],
                                                     event.event_type),
                                         event).calls
    /\ consumer' = [consumer EXCEPT ![c] = [@ EXCEPT !.pc = "brpop",
                                                     !.message = NoMessage]]
    /\ UNCHANGED <<engine_vars, lib_vars, queue, event_handlers, next_id, mq_log,
                   subscriptions, received>>

NextListen ==
    \/ \E event_type \in ListenTypes : EmitEvent(event_type)
    \/ \E c \in Consumers :
           \/ \E event_pattern \in EventPatterns : listen_for_events(c, event_pattern)
           \/ BrpopServed(c)
           \/ BrpopRaised(c)
           \/ Resumed(c)
           \/ PauseOver(c)
           \/ ListenerDispatched(c)
           \/ CancelConsumer(c)

SpecListen == InitListen /\ [][NextListen]_vars

\* ------------------------------------------------------ claim vocabulary
StepIndexes(e) == 1 .. Len(steps[e])
Recorded(e, i) == steps[e][i].step_id \in DOMAIN results[e]

\* The emit calls of one event type.
EmitCount(e, event_type) ==
    Cardinality({k \in 1 .. Len(emitted[e]) : emitted[e][k].event_type = event_type})

\* errors holds the "Step ... failed" / "Dependencies not satisfied" entry of a step.
HasStepFailed(e, step_id) ==
    \E k \in 1 .. Len(errors[e]) :
        /\ errors[e][k].template = StepFailedMessage("", "").template
        /\ Mentions(errors[e][k], step_id)
DependencyFailure(e) ==
    \E k \in 1 .. Len(errors[e]) : errors[e][k].template = DependenciesMessage("").template

\* The dependencies of the step the loop stopped at that results lacks.
MissingDependencies(e) ==
    {d \in steps[e][cur[e] + 1].dependencies : d \notin DOMAIN results[e]}

\* --------------------------------------------------------------- claims
\* C1: a step with max_retries = N >= 1 has its executor invoked at most N
\* times; once N invocations have failed (the step has no result and its
\* retry_count is N) the step's error is in errors, the status is failed and
\* the loop has been left: there is no (N+1)-th attempt and no further sleep.
C1_RetryBoundary ==
    \A e \in Execs : \A i \in StepIndexes(e) :
        steps[e][i].max_retries >= 1 =>
            /\ invocations[e][i] <= steps[e][i].max_retries
            /\ (/\ ~Recorded(e, i)
                /\ steps[e][i].retry_count = steps[e][i].max_retries)
               => /\ invocations[e][i] = steps[e][i].max_retries
                  /\ status[e] = FAILED
                  /\ HasStepFailed(e, steps[e][i].step_id)
                  /\ pc[e] \in {"emit_step_failed", "after_loop", "returned",
                               "raised", "cancelled"}

\* C1 witness: a step of the default max_retries = 3 failed three times, the
\* execution has returned failed.
C1_Witness ==
    \E e \in Execs : \E i \in StepIndexes(e) :
        /\ steps[e][i].max_retries = DefaultMaxRetries
        /\ invocations[e][i] = DefaultMaxRetries
        /\ ~Recorded(e, i)
        /\ status[e] = FAILED
        /\ pc[e] = "returned"

C3_Original ==
    \A e \in Execs :
        Terminated(e) =>
            /\ status[e] = FAILED => EmitCount(e, "workflow_step_failed") = 1
            /\ status[e] = COMPLETED => EmitCount(e, "workflow_step_failed") = 0

\* C4: emit("workflow_completed") is called at most once, exactly when the
\* status becomes completed, with a result recorded for every step of the
\* execution; it is never called for an execution whose status is failed.
C4_CompletedOnce ==
    \A e \in Execs :
        /\ EmitCount(e, "workflow_completed") <= 1
        /\ EmitCount(e, "workflow_completed") = 1 <=> status[e] = COMPLETED
        /\ EmitCount(e, "workflow_completed") = 1
               => \A i \in StepIndexes(e) : Recorded(e, i)
        /\ status[e] = FAILED => EmitCount(e, "workflow_completed") = 0

\* C4 witness: a four-step execution returned completed, the event emitted once
\* and pushed to its channel.
C4_Witness ==
    \E e \in Execs :
        /\ Len(steps[e]) = 4
        /\ status[e] = COMPLETED
        /\ pc[e] = "returned"
        /\ EmitCount(e, "workflow_completed") = 1
        /\ Len(queue["events:workflow_completed"]) = 1

\* A github step's collaborator reported {success: false, error: "not found"}.
ActionReportedFailure(e, i) ==
    /\ steps[e][i].step_type = "github"
    /\ Recorded(e, i)
    /\ ~results[e][steps[e][i].step_id].success

\* C5 as stated: once the action collaborator has reported
\* {success: false, error: e} and execute_workflow has returned, the status is
\* failed, an entry of errors mentions e, the notification step was not
\* invoked and the execution is not completed.
C5_Original ==
    \A e \in Execs : \A i \in StepIndexes(e) :
        (ActionReportedFailure(e, i) /\ pc[e] = "returned") =>
            /\ status[e] = FAILED
            /\ \E k \in 1 .. Len(errors[e]) : Mentions(errors[e][k], "not found")
            /\ \A j \in StepIndexes(e) :
                   steps[e][j].step_type = "notification" => invocations[e][j] = 0
            /\ status[e] # COMPLETED

\* C5 amended: an action failure is not a step failure.  The reply
\* {success: false, error: e} is recorded as the action step's result, the
\* invocation that got it is the step's last one (every earlier one raised)
\* and the execution advances past the step; no entry of errors mentions e; an
\* execution that returns after such a reply is completed unless a later publish
\* or emit raised a transport error often enough to exhaust a step's retries.
C5_ActionFailureIsAResult ==
    \A e \in Execs :
        /\ \A k \in 1 .. Len(errors[e]) : ~Mentions(errors[e][k], "not found")
        /\ \A i \in StepIndexes(e) :
               ActionReportedFailure(e, i) =>
                   /\ results[e][steps[e][i].step_id] = Payload("github", FALSE, "not found")
                   /\ current_step[e] >= i
                   /\ invocations[e][i] <= steps[e][i].retry_count + 1
                   /\ pc[e] = "returned" =>
                          \/ status[e] = COMPLETED
                          \/ /\ status[e] = FAILED
                             /\ errors[e][Len(errors[e])].error = "transport error"

\* C5 witness: the action collaborator reported a failure, the notification
\* step ran and the execution returned completed.
C5_Witness ==
    \E e \in Execs : \E i \in StepIndexes(e) :
        /\ ActionReportedFailure(e, i)
        /\ i < Len(steps[e])
        /\ invocations[e][Len(steps[e])] >= 1
        /\ status[e] = COMPLETED
        /\ pc[e] = "returned"

\* C6 as stated, for the outcomes without cancellation: when handle_request's
\* call has ended (it returned, or an emit's transport error left it) the
\* execution is no longer in active_workflows and get_workflow_status returns
\* None.
C6_Original ==
    \A e \in Execs :
        pc[e] \in {"returned", "raised"}
            => e \notin active_workflows /\ get_workflow_status(e) = <<>>


UniqueStepIds(e) ==
    \A i, j \in StepIndexes(e) : steps[e][i].step_id = steps[e][j].step_id => i = j

\* C8: with unique step_ids the keys of results are the step_ids of
\* steps[0 .. current_step-1], one entry per step; current_step never
\* decreases and grows by exactly one exactly when a result is recorded, the
\* result of the step it pointed at.
C8_ResultsFollowCursor ==
    /\ [](\A e \in Execs :
             UniqueStepIds(e) =>
                 /\ current_step[e] <= Len(steps[e])
                 /\ DOMAIN results[e] = {steps[e][i].step_id : i \in 1 .. current_step[e]}
                 /\ Cardinality(DOMAIN results[e]) = current_step[e])
    /\ [][\A e \in Execs :
             /\ current_step'[e] >= current_step[e]
             /\ current_step'[e] # current_step[e] <=> results'[e] # results[e]
             /\ current_step'[e] # current_step[e] =>
                    /\ current_step'[e] = current_step[e] + 1
                    /\ DOMAIN results'[e] =
                           DOMAIN results[e] \cup {steps[e][current_step[e] + 1].step_id}]_vars

\* C8 witness: three steps recorded in list order, the fourth not yet.
C8_Witness ==
    \E e \in Execs :
        /\ Len(steps[e]) = 4
        /\ current_step[e] = 3
        /\ DOMAIN results[e] = {steps[e][i].step_id : i \in 1 .. 3}
        /\ pc[e] = "final_notification"

\* C9: results and errors only grow: an entry of results is never removed and
\* its value never replaced, errors is only ever extended at its end.
C9_AppendOnly ==
    [][\A e \in Execs :
          /\ \A k \in DOMAIN results[e] :
                 k \in DOMAIN results'[e] /\ results'[e][k] = results[e][k]
          /\ Len(errors'[e]) >= Len(errors[e])
          /\ SubSeq(errors'[e], 1, Len(errors[e])) = errors[e]]_vars

\* C9 witness: results holds three entries and errors one, after a retry and a
\* terminal failure.
C9_Witness ==
    \E e \in Execs :
        /\ Cardinality(DOMAIN results[e]) = 3
        /\ Len(errors[e]) = 1
        /\ sleeps[e] # <<>>
        /\ pc[e] = "returned"

\* The delays slept for one step, in order.
StepDelays(e, step_id) ==
    LET OfStep(sleep) == sleep.step_id = step_id
        own == SelectSeq(sleeps[e], OfStep)
    IN  [k \in 1 .. Len(own) |-> own[k].delay]

\* The executor of step i failed max_retries times: the step kept failing.
KeptFailing(e, i) ==
    /\ ~Recorded(e, i)
    /\ steps[e][i].retry_count = steps[e][i].max_retries

\* C10 as stated: when execute_workflow has returned, a step of
\* max_retries = 3 that kept failing has slept 2 s, 4 s and 8 s.
C10_Original ==
    \A e \in Execs : \A i \in StepIndexes(e) :
        (/\ steps[e][i].max_retries = DefaultMaxRetries
         /\ KeptFailing(e, i)
         /\ pc[e] = "returned")
            => StepDelays(e, steps[e][i].step_id) = <<2, 4, 8>>

\* C10 amended: every sleep lasts 2^retry_count seconds, retry_count being the
\* step's count after the failure just recorded, and happens only while
\* retry_count < max_retries; so a step of max_retries = 3 that kept failing
\* slept 2 s and 4 s, and its third failure was followed by no sleep.
C10_BackoffSchedule ==
    \A e \in Execs :
        /\ \A k \in 1 .. Len(sleeps[e]) :
               /\ sleeps[e][k].retry_count >= 1
               /\ sleeps[e][k].delay = 2 ^ sleeps[e][k].retry_count
               /\ \A i \in StepIndexes(e) :
                      steps[e][i].step_id = sleeps[e][k].step_id
                          => sleeps[e][k].retry_count < steps[e][i].max_retries
        /\ \A i \in StepIndexes(e) :
               (steps[e][i].max_retries = DefaultMaxRetries /\ KeptFailing(e, i))
                   => StepDelays(e, steps[e][i].step_id) = <<2, 4>>

\* C10 witness: a step of max_retries = 3 failed three times and the execution
\* returned.
C10_Witness ==
    \E e \in Execs : \E i \in StepIndexes(e) :
        /\ steps[e][i].max_retries = DefaultMaxRetries
        /\ KeptFailing(e, i)
        /\ Len(sleeps[e]) = 2
        /\ pc[e] = "returned"

\* ------------------------------------------------------------ cancellation
\* The step whose executor was running: invoked, nothing recorded for it.
InFlight(e, i) ==
    /\ invocations[e][i] >= 1
    /\ steps[e][i].step_id \notin DOMAIN results[e]

\* C13: once the task of an execution has been cancelled, at whichever await,
\* the task is over: no executor is invoked for it again, results keeps exactly
\* the entries it had, and the result of the step in flight is never added;
\* the cancelling step itself writes nothing of the execution either.
C13_CancellationStopsDispatch ==
    /\ [](\A e \in cancelled : pc[e] = "cancelled")
    /\ [][\A e \in Execs :
             e \in cancelled' =>
                 /\ invocations'[e] = invocations[e]
                 /\ results'[e] = results[e]
                 /\ steps'[e] = steps[e]
                 /\ current_step'[e] = current_step[e]]_vars

\* C13 witness: an execution was cancelled with one result recorded while the
\* executor of its next step was running.
C13_Witness ==
    \E e \in cancelled :
        /\ pc[e] = "cancelled"
        /\ Len(steps[e]) >= 2
        /\ current_step[e] = 1
        /\ Cardinality(DOMAIN results[e]) = 1
        /\ InFlight(e, 2)

\* ---------------------------------------------------------------- the bus
\* The emits an execution can be waiting in, and where each returns to.
EmitAwaits == {"emit_step_completed", "emit_step_failed", "emit_completed"}
AfterEmit(at) ==
    CASE at = "emit_step_completed" -> "loop"
      [] at = "emit_step_failed" -> "after_loop"
      [] OTHER -> "returned"

\* The emit call an execution is waiting in.
PendingEmit(e) == emitted[e][Len(emitted[e])]

\* The list registered with the orchestrator's bus for an event type.
RegisteredFor(event_type) ==
    IF event_type \in DOMAIN event_handlers["orchestrator"]
    THEN event_handlers["orchestrator"][event_type]
    ELSE <<>>

\* p is an initial segment of q.
IsPrefix(p, q) == Len(p) <= Len(q) /\ \A i \in 1 .. Len(p) : p[i] = q[i]

\* What the queues and the log look like after an emit that did nothing.
EmitDidNothing == queue' = queue /\ bus_log' = bus_log

\* C18: the lists of the registry only grow at their end, so list order is
\* registration order; and a step that ends an emit either did nothing (its
\* publish raised, or the task was cancelled) or put exactly one message
\* {event_type, data} at the head of events:<event_type>, no other, and then
\* called the handlers registered for exactly that event_type, each once, in
\* list order, the publish coming first in the log.
C18_EmitPublishesThenDispatches ==
    [][/\ \A p \in Processes : \A t \in EventTypes :
              IsPrefix(HandlersFor(event_handlers[p], t), HandlersFor(event_handlers'[p], t))
       /\ \A e \in Execs :
              (pc[e] \in EmitAwaits /\ pc'[e] # pc[e]) =>
                  \/ EmitDidNothing
                  \/ LET ev == PendingEmit(e)
                         hs == RegisteredFor(ev.event_type)
                         ch == "events:" \o ev.event_type IN
                     /\ queue'[ch] = <<QueueMessage(ev)>> \o queue[ch]
                     /\ \A c \in DOMAIN queue : c # ch => queue'[c] = queue[c]
                     /\ Len(bus_log') = Len(bus_log) + 1 + Len(hs)
                     /\ IsPrefix(bus_log, bus_log')
                     /\ bus_log'[Len(bus_log) + 1] =
                            BusEntry("orchestrator", "publish", ev, "")
                     /\ \A i \in 1 .. Len(hs) :
                            bus_log'[Len(bus_log) + 1 + i] =
                                BusEntry("orchestrator", "handler", ev, hs[i])]_vars

\* C18 witness: two handlers are registered for workflow_step_completed and
\* one for workflow_step_failed; an emit of workflow_step_completed published
\* and then called the two, in registration order, and not the third.
C18_Witness ==
    /\ RegisteredFor("workflow_step_completed") = <<"handle_step_completion", "audit">>
    /\ RegisteredFor("workflow_step_failed") = <<"handle_step_failure">>
    /\ Len(bus_log) = 3
    /\ bus_log[1].op = "publish"
    /\ bus_log[1].event.event_type = "workflow_step_completed"
    /\ bus_log[2].handler = "handle_step_completion"
    /\ bus_log[3].handler = "audit"
    /\ Len(queue["events:workflow_step_completed"]) = 1
    /\ \E e \in Execs : pc[e] = "loop"

\* C19: when the publish of an emit succeeded, every handler registered for
\* the type is called, also those that come after one that raises, and the
\* emit returns normally: the execution goes on where it goes after a
\* successful emit, with its status, errors, results and retry counts as they
\* were.
C19_HandlerIsolation ==
    [][\A e \in Execs :
          (pc[e] \in EmitAwaits /\ pc'[e] # pc[e] /\ queue' # queue) =>
              /\ pc'[e] = AfterEmit(pc[e])
              /\ status'[e] = status[e]
              /\ errors'[e] = errors[e]
              /\ results'[e] = results[e]
              /\ steps'[e] = steps[e]
              /\ Len(bus_log') = Len(bus_log) + 1
                                   + Len(RegisteredFor(PendingEmit(e).event_type))]_vars

\* C19 witness: the handler registered first for workflow_step_completed
\* raised, the one registered after it was still called, and the execution
\* went on to complete.
C19_Witness ==
    /\ RegisteredFor("workflow_step_completed") =
           <<"handle_step_completion", "faulty", "audit">>
    /\ \E k \in 1 .. Len(bus_log) - 1 :
           /\ bus_log[k].handler = "faulty"
           /\ bus_log[k + 1].handler = "audit"
           /\ bus_log[k + 1].event = bus_log[k].event
    /\ \E e \in Execs : pc[e] = "returned" /\ status[e] = COMPLETED

\* ------------------------------------------------------ queue delivery
\* The entries of mq_log of one kind about one channel, as their positions.
LogPositions(op, channel) ==
    {k \in 1 .. Len(mq_log) : mq_log[k].op = op /\ mq_log[k].channel = channel}

\* The number a message got when it was pushed: pushes are numbered in the
\* order the server executed them.
PushNumber(message) == IF Decodable(message) THEN message.data ELSE message.raw

\* C14 as stated: on every channel the yields, of all consumers together, come
\* in the order of the pushes.
C14_Original ==
    \A channel \in WorkChannels :
        \A j, k \in LogPositions("yield", channel) :
            j < k => PushNumber(mq_log[j].message) < PushNumber(mq_log[k].message)

\* C14 amended: the messages leave a channel in the order of the pushes,
\* whatever their priority (every pop takes the oldest message still in the
\* list), and each consumer yields the messages it popped in that order; two
\* consumers resume independently after their pops, so the yields of
\* different consumers can come in either order.
C14_PopsInPushOrder ==
    \A channel \in WorkChannels :
        /\ \A j, k \in LogPositions("pop", channel) :
               j < k => PushNumber(mq_log[j].message) < PushNumber(mq_log[k].message)
        /\ \A j \in LogPositions("pop", channel) :
               \A i \in 1 .. Len(queue[channel]) :
                   PushNumber(mq_log[j].message) < PushNumber(queue[channel][i])
        /\ \A i, j \in 1 .. Len(queue[channel]) :
               i < j => PushNumber(queue[channel][i]) > PushNumber(queue[channel][j])
        /\ \A j, k \in LogPositions("yield", channel) :
               (j < k /\ mq_log[j].consumer = mq_log[k].consumer)
                   => PushNumber(mq_log[j].message) < PushNumber(mq_log[k].message)

\* C14 witness: a message of priority 0 was pushed before one of priority 5
\* and both were yielded, the first one first.
C14_Witness ==
    \E j, k \in LogPositions("yield", "github_requests") :
        /\ j < k
        /\ mq_log[j].message = Envelope(1, 0)
        /\ mq_log[k].message = Envelope(2, 5)

\* C15: a message is popped at most once and yielded at most once, so to at
\* most one consumer; and no step of a consumer puts anything on a channel:
\* the lists grow only when a producer pushes, also when the popped message
\* does not decode and when the handler that got it raises.
C15_AtMostOnce ==
    /\ [](\A op \in {"pop", "yield"} : \A channel \in WorkChannels :
             \A j, k \in LogPositions(op, channel) :
                 PushNumber(mq_log[j].message) = PushNumber(mq_log[k].message) => j = k)
    /\ [][\A channel \in WorkChannels :
             Len(queue'[channel]) > Len(queue[channel]) => next_id' = next_id + 1]_vars

\* C15 witness: one message did not decode, the handler of another raised,
\* and the channel is empty.
C15_Witness ==
    /\ queue["github_requests"] = <<>>
    /\ LogPositions("drop", "github_requests") # {}
    /\ LogPositions("raised", "github_requests") # {}
    /\ \A c \in Consumers : consumer[c].pc = "brpop"

\* ------------------------------------------------------ consume and errors
\* The message with this push number has been yielded, or dropped.
Yielded(id) ==
    \E k \in 1 .. Len(mq_log) :
        /\ mq_log[k].op = "yield"
        /\ PushNumber(mq_log[k].message) = id
Dropped(id) ==
    \E k \in 1 .. Len(mq_log) :
        /\ mq_log[k].op = "drop"
        /\ PushNumber(mq_log[k].message) = id

\* No task was cancelled, the lists are empty and every consumer that was
\* started waits in its brpop: nothing is left to do.
Drained ==
    /\ \A c \in Consumers : ~consumer[c].cancel /\ consumer[c].pc \in {"off", "brpop"}
    /\ \A channel \in WorkChannels : queue[channel] = <<>>

NotificationKeys == {"notifications:" \o channel : channel \in NotificationChannels}

\* C17 as stated: a notification published on a channel is received, once, by
\* every subscriber whose pattern matches notifications:<channel> at that time.
C17_Original ==
    [][\A key \in NotificationKeys :
          Len(queue'[key]) = Len(queue[key]) + 1 =>
              \A s \in Subscribers :
                  (subscriptions[s] \in Patterns /\ Matches(subscriptions[s], key))
                      => received'[s] = Append(received[s], next_id')]_vars

\* ------------------------------------------------ cross-process dispatch
\* glob matching of a listen_for_events pattern against an event type.
PatternMatches(event_pattern, event_type) ==
    event_pattern = "*" \/ event_pattern = event_type

\* A listener that was started with a pattern matching the event type.
ListensFor(c, event_type) ==
    /\ consumer[c].role = "listener"
    /\ \E event_pattern \in EventPatterns :
           /\ consumer[c].channel = "events:" \o event_pattern
           /\ PatternMatches(event_pattern, event_type)

\* An event the observer's process has dispatched to its handlers.
Redispatched(event) ==
    \E k \in 1 .. Len(bus_log) :
        bus_log[k].process = "observer" /\ bus_log[k].event = event

\* No listener was cancelled and none has anything left to do: each waits in
\* a brpop on an empty list.
ListenersIdle ==
    \A c \in Consumers :
        /\ ~consumer[c].cancel
        /\ consumer[c].pc = "brpop"
        /\ queue[consumer[c].channel] = <<>>

\* C20 as stated, in its finite-run form: once the listeners have nothing left
\* to do, every event the orchestrator's process emitted whose type matches
\* the pattern of a listener, "*" included, has been dispatched to the
\* observer's handlers for that type.
C20_Original ==
    ListenersIdle =>
        \A k \in 1 .. Len(bus_log) :
            (/\ bus_log[k].process = "orchestrator"
             /\ bus_log[k].op = "publish"
             /\ \E c \in Consumers : ListensFor(c, bus_log[k].event.event_type))
                => Redispatched(bus_log[k].event)

\* The loop c is inside handle_request: its execution has started and has
\* neither returned nor raised.
Handling(c) ==
    /\ consumer[c].pc = "body"
    /\ ValidRequest(consumer[c].message)
    /\ pc[ExecutionOf(c)] \notin {"idle", "returned", "raised"}

\* C12 as stated: while the workflow of an earlier message of its queue is
\* still in flight, sleeping in retry backoff, and the next message waits in
\* the queue, the consumer loop can take that message and start its workflow.
C12_Original ==
    \A c \in Consumers :
        (/\ Handling(c)
         /\ pc[ExecutionOf(c)] = "sleeping"
         /\ queue[LoopChannel(c)] # <<>>)
            => ENABLED BrpopServed(c)

\* The fields of WorkflowExecution e that execute_workflow writes.
Fields(e) == <<results[e], errors[e], current_step[e], status[e], steps[e]>>

\* Every entry of e's results is under the id of a step of e's own list,
\* a step e itself has invoked, and is a reply of that step's collaborator.
OwnResults(e) ==
    \A step_id \in DOMAIN results[e] :
        \E i \in 1 .. Len(steps[e]) :
            /\ steps[e][i].step_id = step_id
            /\ invocations[e][i] >= 1
            /\ results[e][step_id] \in CollaboratorResults(steps[e][i].step_type)

\* e met no failure of its own: no retry was counted for any of its steps
\* and no exception or cancellation ended its handle_request.
Undisturbed(e) ==
    /\ RetrySum(steps[e], Len(steps[e])) = 0
    /\ pc[e] \notin {"raised", "cancelled"}

\* The outcome of an undisturbed execution running alone: COMPLETED, one
\* result per step, no error, end_time set, removed from active_workflows.
OutcomeAlone(e) ==
    /\ status[e] = COMPLETED
    /\ DOMAIN results[e] = {steps[e][i].step_id : i \in 1 .. Len(steps[e])}
    /\ errors[e] = <<>>
    /\ current_step[e] = Len(steps[e])
    /\ end_time[e]
    /\ e \notin active_workflows

\* C11: whatever the interleaving of the executions handle_request started,
\* a step writes results, errors, current_step, status and the steps'
\* retry_count of one execution only, the one whose loop takes the step;
\* results of an execution holds only replies to its own steps; and an
\* execution that met no failure of its own ends as it would alone, whatever
\* happened to the others meanwhile.
C11_Isolation ==
    /\ [](\A e \in Execs :
              /\ OwnResults(e)
              /\ (pc[e] = "returned" /\ Undisturbed(e)) => OutcomeAlone(e))
    /\ [][/\ \A e \in Execs : Fields(e)' # Fields(e) => pc'[e] # pc[e]
          /\ \A e, f \in Execs : (pc'[e] # pc[e] /\ pc'[f] # pc[f]) => e = f]_vars

\* Two executions in flight at once: the first sleeps in its second backoff
\* while the second has just stored the result of its step.
C11_Witness ==
    /\ pc[1] = "sleeping"
    /\ steps[1][1].retry_count = 2
    /\ pc[2] = "emit_step_completed"
    /\ "nlp_processing" \in DOMAIN results[2]
    /\ results[1] = EmptyMap

\* A step list as the claim describes it: first step nlp without
\* dependencies, pairwise distinct step_ids, every later step depending on
\* exactly its immediate predecessor.
WellBuilt(step_list) ==
    /\ Len(step_list) >= 1
    /\ step_list[1].step_type = "nlp"
    /\ step_list[1].dependencies = {}
    /\ \A i, j \in 1 .. Len(step_list) :
           step_list[i].step_id = step_list[j].step_id => i = j
    /\ \A i \in 2 .. Len(step_list) :
           step_list[i].dependencies = {step_list[i - 1].step_id}

\* C24: for every workflow_type create_workflow_steps returns a well-built
\* list, and the list handle_request gives its execution is that list: it
\* depends on nothing but the workflow_type (the request only fills the
\* parameters).
C24_StepBuilding ==
    /\ [](\A workflow_type \in WorkflowTypes :
              WellBuilt(create_workflow_steps(workflow_type)))
    /\ [][\A e \in Execs :
              (pc[e] = "idle" /\ status'[e] = PROCESSING) =>
                  /\ WellBuilt(steps'[e])
                  /\ \E workflow_type \in WorkflowTypes :
                         steps'[e] = create_workflow_steps(workflow_type)]_vars

\* handle_request has built the four-step list of a github request.
C24_Witness ==
    \E e \in Execs :
        /\ pc[e] = "loop"
        /\ status[e] = PROCESSING
        /\ current_step[e] = 0
        /\ Len(steps[e]) = 4
        /\ steps[e][4].dependencies = {"execute_github_operation"}

\* The text of an entry of errors: the f-string with its values filled in.
Text(message) ==
    IF message.template = "Step {step_id} failed: {error}"
    THEN "Step " \o message.step_id \o " failed: " \o message.error
    ELSE "Dependencies not satisfied for step " \o message.step_id

\* The data of the event reports the entry of errors: it carries an errors
\* list holding it, or its error text is the entry.
Reports(event, message) ==
    \/ /\ "errors" \in DOMAIN event
       /\ \E k \in 1 .. Len(event.errors) : event.errors[k] = message
    \/ event.error = Text(message)

\* C22 as stated: the workflow_step_failed event of a failed execution
\* reports every entry errors holds at the time of the failure.
C22_Original ==
    \A e \in Execs :
        \A k \in 1 .. Len(emitted[e]) :
            emitted[e][k].event_type = "workflow_step_failed" =>
                \A n \in 1 .. Len(errors[e]) : Reports(emitted[e][k], errors[e][n])

\* C30 as stated: when an attempt has failed with retries remaining (the
\* execution sleeps in its backoff), the attempt has left results and
\* current_step as they were when it began, errors and status too, and the
\* step the loop takes next is the step that was attempted.
C30_Original ==
    \A e \in Execs :
        pc[e] = "sleeping" =>
            /\ current_step[e] = cur[e]
            /\ steps[e][cur[e] + 1].step_id \notin DOMAIN results[e]
            /\ errors[e] = <<>>
            /\ status[e] \in {PENDING, PROCESSING}

\* The execution was started by handle_request: its list is one of
\* create_workflow_steps, whose first step is nlp_processing.
ByHandleRequest(e) ==
    /\ steps[e] # <<>>
    /\ steps[e][1].step_id = "nlp_processing"

\* Executor invocations of e so far, and the sum of max_retries of its steps.
RECURSIVE InvocationSum(_, _)
InvocationSum(e, n) ==
    IF n = 0 THEN 0 ELSE invocations[e][n] + InvocationSum(e, n - 1)
RECURSIVE MaxRetriesSum(_, _)
MaxRetriesSum(step_list, n) ==
    IF n = 0 THEN 0 ELSE step_list[n].max_retries + MaxRetriesSum(step_list, n - 1)

\* execute_workflow is over, by return or by exception (cancellation apart).
Ended(e) == pc[e] \in {"returned", "raised"}

\* C29 as stated: an execution started by handle_request never invokes more
\* executors than the sum of its steps' max_retries, and when it has ended
\* its status is completed or failed and execute_workflow has returned.
C29_Original ==
    \A e \in Execs :
        ByHandleRequest(e) =>
            /\ InvocationSum(e, Len(steps[e])) <= MaxRetriesSum(steps[e], Len(steps[e]))
            /\ Ended(e) => /\ status[e] \in {COMPLETED, FAILED}
                           /\ pc[e] = "returned"

\* Where execute_workflow stands within one pass of its loop, counted
\* downwards; every await and every branch has a lower place than the one
\* before it.
Place(e) ==
    CASE pc[e] \in {"emit_step_completed", "sleeping"} -> 7
      [] pc[e] = "loop" -> 6
      [] pc[e] = "status_update" -> 5
      [] pc[e] \in {"collaborator", "final_notification", "emit_step_failed"} -> 4
      [] pc[e] = "after_loop" -> 3
      [] pc[e] = "emit_completed" -> 2
      [] OTHER -> 0

\* What is left for e to do: the steps not yet recorded and the failures its
\* steps can still take (a step fails for good when its retry_count reaches
\* max_retries, at the first failure when max_retries is 0), then the place.
Rank(e) ==
    10 * ((Len(steps[e]) - current_step[e])
          + (MaxRetriesSum(steps[e], Len(steps[e])) - RetrySum(steps[e], Len(steps[e])))
          + Len(steps[e]))
    + Place(e)

\* C29: every step of an execution lowers its rank, which is never negative,
\* so the execution ends after finitely many steps; it invokes at most
\* sum(max_retries) executors; when execute_workflow has ended the status is
\* completed or failed; and it has ended by returning unless the emit of the
\* terminal event (workflow_step_failed or workflow_completed) raised, which
\* leaves execute_workflow, and handle_request, as that exception.
C29_Termination ==
    /\ [](\A e \in Execs :
              /\ Rank(e) >= 0
              /\ ByHandleRequest(e) =>
                     /\ InvocationSum(e, Len(steps[e]))
                            <= MaxRetriesSum(steps[e], Len(steps[e]))
                     /\ Ended(e) => status[e] \in {COMPLETED, FAILED}
                     /\ pc[e] = "raised" =>
                            emitted[e][Len(emitted[e])].event_type
                                \in {"workflow_step_failed", "workflow_completed"})
    /\ [][\A e \in Execs :
              (pc[e] # "idle" /\ pc'[e] # pc[e]) => Rank(e)' < Rank(e)]_vars

\* A github request whose first step succeeded at its third invocation and
\* whose execution completed; the emit of workflow_completed raised.
C29_Witness ==
    \E e \in Execs :
        /\ ByHandleRequest(e)
        /\ Len(steps[e]) = 4
        /\ invocations[e][1] = 3
        /\ status[e] = COMPLETED
        /\ pc[e] = "raised"

\* C25 as stated: when the action collaborator has replied {success: true,
\* branch_name: b} to the github step of an execution, the execution that
\* has returned is completed, and the message of its final notification,
\* once published, contains b.
C25_Original ==
    \A e \in Execs :
        (/\ "execute_github_operation" \in DOMAIN results[e]
         /\ results[e]["execute_github_operation"] = BranchCreated)
            => /\ (pc[e] = "returned" /\ RetrySum(steps[e], Len(steps[e])) = 0)
                      => status[e] = COMPLETED
               /\ \A k \in 1 .. Len(queue["final_notifications"]) :
                      LET notice == queue["final_notifications"][k].data IN
                      notice.workflow_id = e =>
                          \E n \in 1 .. Len(notice.message) :
                              notice.message[n] = BranchCreated.branch_name

\* Every loop waits in its brpop on an empty list: nothing is left to do.
LoopsIdle ==
    \A c \in Consumers :
        /\ consumer[c].pc = "brpop"
        /\ queue[LoopChannel(c)] = <<>>

\* The number under which a list element was pushed.
PushedAs(message) ==
    IF ~Decodable(message) THEN message.raw
    ELSE IF message.data > 0 THEN message.data ELSE 0 - message.data

\* Some loop has received the k-th element pushed.
Received(k) ==
    \E n \in 1 .. Len(mq_log) :
        mq_log[n].op = "pop" /\ PushedAs(mq_log[n].message) = k

\* The k-th element pushed was a well-formed request.
WellFormed(k) ==
    \E n \in 1 .. Len(mq_log) :
        /\ mq_log[n].op = "pop"
        /\ Decodable(mq_log[n].message)
        /\ mq_log[n].message.data = k

\* C21: no message ends a consumer loop, whether it does not decode, is no
\* SlackRequest, or makes handle_request raise; once the loops have nothing
\* left to do, every element pushed has been received and every well-formed
\* request among them, those behind a bad message included, has been handed
\* to handle_request.
C21_LoopSurvivesBadMessages ==
    /\ \A c \in Consumers : consumer[c].pc \notin {"ended", "cancelled"}
    /\ LoopsIdle =>
           \A k \in 1 .. next_id :
               /\ Received(k)
               /\ WellFormed(k) => pc[k] # "idle"

\* The first message was no SlackRequest and raised in the body of the
\* loop; the request published after it has been handled to its end.
C21_Witness ==
    /\ LoopsIdle
    /\ next_id = 2
    /\ \E n \in 1 .. Len(mq_log) :
           /\ mq_log[n].op = "raised"
           /\ mq_log[n].message.data = 0 - 1
    /\ pc[2] = "returned"
    /\ status[2] = COMPLETED

\* ------------------------------------------------ shared/models.py objects
\* The variables no method of these objects writes.
service_vars == <<engine_vars, queue, bus_log, event_handlers, next_id, consumer, mq_log,
                  subscriptions, received>>

\* The elements of a list.
Elements(list) == {list[n] : n \in 1 .. Len(list)}

\* Slip: add_repository without its membership test.
AppendAlways(list, item) == Append(list, item)

\* if item not in list: list.append(item)
AppendIfAbsent(list, item) ==
    IF item \in Elements(list) THEN list ELSE Append(list, item)

\* list.remove(item): the first occurrence goes.
RECURSIVE RemoveFirst(_, _)
RemoveFirst(list, item) ==
    IF list = <<>> THEN <<>>
    ELSE IF Head(list) = item THEN Tail(list)
    ELSE <<Head(list)>> \o RemoveFirst(Tail(list), item)

\* if item in list: list.remove(item)
RemoveIfPresent(list, item) ==
    IF item \in Elements(list) THEN RemoveFirst(list, item) ELSE list

\* The repository names the callers use.
RepoNames == {"org/api", "org/web", "org/docs"}

\* UserPreferences.add_repository
add_repository(repo_name) ==
    /\ Len(call_log) < MaxCalls
    /\ repositories' = AppendIfAbsent(repositories, repo_name)
    /\ call_log' = Append(call_log, [op |-> "add_repository", repo_name |-> repo_name])
    /\ UNCHANGED <<service_vars, operation, blocks, redis_client, health>>

\* UserPreferences.remove_repository
remove_repository(repo_name) ==
    /\ Len(call_log) < MaxCalls
    /\ repositories' = RemoveIfPresent(repositories, repo_name)
    /\ call_log' = Append(call_log, [op |-> "remove_repository", repo_name |-> repo_name])
    /\ UNCHANGED <<service_vars, operation, blocks, redis_client, health>>

\* Any sequence of calls on one UserPreferences.
NextPreferences ==
    \E repo_name \in RepoNames :
        \/ add_repository(repo_name)
        \/ remove_repository(repo_name)

SpecPreferences == Init /\ [][NextPreferences]_vars

\* The call the last step made.
LastCall == call_log'[Len(call_log')]

\* C26: repositories never holds a name twice; add_repository of a name
\* already present leaves the list as it is and of an absent name appends
\* it, remove_repository of a present name takes it out and of an absent
\* name leaves the list as it is (and returns, like every call).
C26_NoDuplicateRepositories ==
    /\ [](\A m, n \in 1 .. Len(repositories) :
              repositories[m] = repositories[n] => m = n)
    /\ [][call_log' # call_log =>
              LET name == LastCall.repo_name
                  present == name \in Elements(repositories) IN
              /\ (LastCall.op = "add_repository" /\ present)
                     => repositories' = repositories
              /\ (LastCall.op = "add_repository" /\ ~present)
                     => repositories' = Append(repositories, name)
              /\ (LastCall.op = "remove_repository" /\ present)
                     => /\ name \notin Elements(repositories')
                        /\ Elements(repositories') = Elements(repositories) \ {name}
                        /\ Len(repositories') = Len(repositories) - 1
              /\ (LastCall.op = "remove_repository" /\ ~present)
                     => repositories' = repositories]_vars

\* A name was added twice and another removed: the list holds the first
\* name once.
C26_Witness ==
    /\ Len(call_log) = 3
    /\ call_log[1] = [op |-> "add_repository", repo_name |-> "org/api"]
    /\ call_log[2] = [op |-> "add_repository", repo_name |-> "org/api"]
    /\ call_log[3] = [op |-> "remove_repository", repo_name |-> "org/web"]
    /\ repositories = <<"org/api">>

\* Slip: `is not None` for the truth test.
IsNotNone(value) == value # None

\* Python's truth test of an optional dict or string argument: None, {} and
\* "" are false.
Truthy(value) == value \notin {None, EmptyDict, EmptyString}

\* The arguments the callers of mark_completed pass.
ResultData == {None, EmptyDict, "{file_url: ...}"}
ErrorMessages == {None, EmptyString, "Repository not found"}

\* datetime.now(): a clock that has moved on with every call.
Now == Len(call_log) + 1

\* OperationResult.mark_completed
mark_completed(success, result_data, error_message) ==
    /\ Len(call_log) < MaxCalls
    /\ operation' =
           [operation EXCEPT
               !.end_time = <<Now>>,
               !.processing_time = <<Now - operation.start_time>>,
               !.success = success,
               !.status = IF success THEN COMPLETED ELSE FAILED,
               !.result_data = IF Truthy(result_data) THEN result_data ELSE @,
               !.error_message = IF Truthy(error_message) THEN error_message ELSE @]
    /\ call_log' = Append(call_log, [op |-> "mark_completed", success |-> success,
                                     result_data |-> result_data,
                                     error_message |-> error_message])
    /\ UNCHANGED <<service_vars, repositories, blocks, redis_client, health>>

\* Any sequence of mark_completed calls on one OperationResult.
NextOperation ==
    \E success \in BOOLEAN, result_data \in ResultData, error_message \in ErrorMessages :
        mark_completed(success, result_data, error_message)

SpecOperation == Init /\ [][NextOperation]_vars

\* C27: after mark_completed(success, ...) the status is completed when
\* success is true and failed when it is false, the success field is the
\* argument, end_time and processing_time are set, and result_data and
\* error_message have the argument's value when that is non-empty and their
\* old value when it is None or empty.
C27_MarkCompleted ==
    /\ [](call_log # <<>> =>
              /\ operation.status = (IF operation.success THEN COMPLETED ELSE FAILED)
              /\ operation.end_time # <<>>
              /\ operation.processing_time # <<>>)
    /\ [][call_log' # call_log =>
              /\ operation'.success = LastCall.success
              /\ operation'.status = (IF LastCall.success THEN COMPLETED ELSE FAILED)
              /\ operation'.result_data =
                     (IF LastCall.result_data \in {None, EmptyDict}
                      THEN operation.result_data ELSE LastCall.result_data)
              /\ operation'.error_message =
                     (IF LastCall.error_message \in {None, EmptyString}
                      THEN operation.error_message ELSE LastCall.error_message)]_vars

\* A failure with a message, then a success with an empty dict: completed,
\* the old error_message and the default result_data are still there.
C27_Witness ==
    /\ Len(call_log) = 2
    /\ call_log[1].success = FALSE
    /\ call_log[1].error_message = "Repository not found"
    /\ call_log[2].success = TRUE
    /\ call_log[2].result_data = EmptyDict
    /\ operation.status = COMPLETED
    /\ operation.error_message = "Repository not found"
    /\ operation.result_data = EmptyDict
    /\ operation.processing_time = <<2>>

\* The block add_code_block builds: a section whose mrkdwn text is the code
\* between two fences, the language after the first.
CodeBlock(code, language) ==
    [type |-> "section", text |-> <<"fence", language, code, "fence">>, elements |-> <<>>]

\* The element add_button builds.
Button(text, action_id, value) ==
    [type |-> "button", text |-> text, action_id |-> action_id, value |-> value]

\* The actions block add_button creates when it finds none.
ActionsBlock == [type |-> "actions", text |-> "", elements |-> <<>>]

\* Slip: add_button does not look for an existing actions block.
WithButtonInNewBlock(list, button) ==
    Append(list, [ActionsBlock EXCEPT !.elements = <<button>>])

\* add_button on the list of blocks: the first block of type actions, or a
\* new one appended to the list, gets the button appended to its elements.
WithButton(list, button) ==
    LET found == {n \in 1 .. Len(list) : list[n].type = "actions"}
        base == IF found = {} THEN Append(list, ActionsBlock) ELSE list
        at == IF found = {} THEN Len(base)
              ELSE CHOOSE n \in found : \A m \in found : n <= m IN
    [base EXCEPT ![at].elements = Append(@, button)]

\* SlackMessage.add_code_block
add_code_block(code, language) ==
    /\ Len(call_log) < MaxCalls
    /\ blocks' = Append(blocks, CodeBlock(code, language))
    /\ call_log' = Append(call_log, [op |-> "add_code_block",
                                     block |-> CodeBlock(code, language)])
    /\ UNCHANGED <<service_vars, repositories, operation, redis_client, health>>

\* SlackMessage.add_button
add_button(text, action_id, value) ==
    /\ Len(call_log) < MaxCalls
    /\ blocks' = WithButton(blocks, Button(text, action_id, value))
    /\ call_log' = Append(call_log, [op |-> "add_button",
                                     block |-> Button(text, action_id, value)])
    /\ UNCHANGED <<service_vars, repositories, operation, redis_client, health>>

\* Any sequence of calls on one SlackMessage that started without blocks.
NextMessage ==
    \/ \E args \in {<<"Approve", "approve_pr", "123">>, <<"Reject", "reject_pr", "123">>,
                     <<"Details", "show_details", "">>} :
           add_button(args[1], args[2], args[3])
    \/ \E args \in {<<"print(1)", "python">>, <<"ls", "">>} :
           add_code_block(args[1], args[2])

SpecMessage == Init /\ [][NextMessage]_vars

\* What the calls of one kind have added, in call order.
RECURSIVE Added(_, _)
Added(log, op) ==
    IF log = <<>> THEN <<>>
    ELSE (IF Head(log).op = op THEN <<Head(log).block>> ELSE <<>>) \o Added(Tail(log), op)

\* The blocks of type actions, by position.
ActionsAt == {n \in 1 .. Len(blocks) : blocks[n].type = "actions"}

\* C28: blocks holds at most one block of type actions, one exactly when
\* add_button has been called, and the elements of that block are the
\* buttons added, in call order; the other blocks are the code blocks
\* added, in call order.
C28_OneActionsBlock ==
    /\ Cardinality(ActionsAt) <= 1
    /\ ActionsAt = {} <=> Added(call_log, "add_button") = <<>>
    /\ \A n \in ActionsAt : blocks[n].elements = Added(call_log, "add_button")
    /\ Len(blocks) = Len(Added(call_log, "add_code_block")) + Cardinality(ActionsAt)

\* A button, a code block, another button: one actions block in front of
\* the code block, holding both buttons in call order.
C28_Witness ==
    /\ Len(call_log) = 3
    /\ Len(blocks) = 2
    /\ blocks[1].type = "actions"
    /\ blocks[1].elements = <<Button("Approve", "approve_pr", "123"),
                              Button("Reject", "reject_pr", "123")>>
    /\ blocks[2] = CodeBlock("ls", "")

\* The texts of the errors redis raises while a call is awaited.
ErrorTexts == {"Connection refused", "Timeout reading from socket"}

\* dict.get(key, default)
Get(info, key, default) == IF key \in DOMAIN info THEN info[key] ELSE default

\* The mapping health_check returns when everything answered.
Healthy(latency, info) ==
    [status |-> "healthy",
     latency_ms |-> latency,
     connected_clients |-> Get(info, "connected_clients", 0),
     used_memory_human |-> Get(info, "used_memory_human", "unknown"),
     version |-> Get(info, "redis_version", "unknown")]

\* The mapping health_check returns from its except clause.
Unhealthy(error) == [status |-> "unhealthy", error |-> error]

\* Slip: the connect call stands in front of the try block.
TryAfterConnect(place) == place \in {"ping", "info"}

\* The try block of health_check holds the connect call, the ping and the
\* info call, and its except clause catches Exception.
TryCovers(place) == place \in {"from_url", "connect", "ping", "info"}

\* A health_check call ends, by return or by an exception leaving it.
HealthEnds(entry) ==
    /\ health' = [pc |-> "idle", latency |-> 0]
    /\ call_log' = Append(call_log, entry)

\* An exception raised at a place of health_check.
HealthFails(place, error) ==
    HealthEnds(IF TryCovers(place)
               THEN [outcome |-> "returned", failed |-> place, error |-> error,
                     value |-> Unhealthy(error)]
               ELSE [outcome |-> "raised", failed |-> place, error |-> error,
                     value |-> [status |-> "none"]])

\* health_check is called: with a client it awaits the ping; without one it
\* enters connect, which builds the pool (that may raise) and the client and
\* awaits its test ping.
HealthCheckCalled ==
    /\ health.pc = "idle"
    /\ Len(call_log) < MaxCalls
    /\ \/ /\ redis_client
          /\ health' = [health EXCEPT !.pc = "ping"]
          /\ UNCHANGED <<redis_client, call_log>>
       \/ /\ ~redis_client
          /\ redis_client' = TRUE
          /\ health' = [health EXCEPT !.pc = "connect"]
          /\ UNCHANGED call_log
       \/ /\ ~redis_client
          /\ HealthFails("from_url", "Redis URL must specify a scheme")
          /\ UNCHANGED redis_client
    /\ UNCHANGED <<service_vars, repositories, operation, blocks>>

\* The test ping of connect answers: health_check reads redis_client again
\* for its own ping.
ConnectReplied ==
    /\ health.pc = "connect"
    /\ IF redis_client
       THEN /\ health' = [health EXCEPT !.pc = "ping"]
            /\ UNCHANGED call_log
       ELSE HealthFails("ping", "'NoneType' object has no attribute 'ping'")
    /\ UNCHANGED <<service_vars, repositories, operation, blocks, redis_client>>

\* The awaited call raises: the ping, the info call, or the test ping of
\* connect, which logs and raises again and leaves the client assigned.
AwaitFailed(error) ==
    /\ health.pc \in {"connect", "ping", "info"}
    /\ HealthFails(health.pc, error)
    /\ UNCHANGED <<service_vars, repositories, operation, blocks, redis_client>>

\* The ping answers: the latency is taken and info is called.
PingReplied(latency) ==
    /\ health.pc = "ping"
    /\ IF redis_client
       THEN /\ health' = [pc |-> "info", latency |-> latency]
            /\ UNCHANGED call_log
       ELSE HealthFails("info", "'NoneType' object has no attribute 'info'")
    /\ UNCHANGED <<service_vars, repositories, operation, blocks, redis_client>>

\* info answers: health_check returns the healthy mapping.
InfoReplied(info) ==
    /\ health.pc = "info"
    /\ HealthEnds([outcome |-> "returned", failed |-> "nothing", error |-> "",
                   value |-> Healthy(health.latency, info)])
    /\ UNCHANGED <<service_vars, repositories, operation, blocks, redis_client>>

\* MessageQueue.disconnect, at any time: the client is closed and forgotten.
disconnect ==
    /\ redis_client
    /\ redis_client' = FALSE
    /\ UNCHANGED <<service_vars, repositories, operation, blocks, health, call_log>>

NextHealth ==
    \/ HealthCheckCalled
    \/ ConnectReplied
    \/ \E latency \in {0, 2} : PingReplied(latency)
    \/ \E info \in {[connected_clients |-> 1, used_memory_human |-> "1M",
                      redis_version |-> "7.0"], <<>>} : InfoReplied(info)
    \/ \E error \in ErrorTexts : AwaitFailed(error)
    \/ disconnect

SpecHealth == Init /\ [][NextHealth]_vars

\* C23: no health_check call ends with an exception; a call in which the
\* connecting, the ping or the info call failed returned a mapping of status
\* "unhealthy" and the error's text, and a call in which nothing failed
\* returned a mapping of status "healthy" that has latency_ms.
C23_HealthCheckNeverRaises ==
    \A n \in 1 .. Len(call_log) :
        /\ call_log[n].outcome = "returned"
        /\ call_log[n].failed # "nothing" =>
               call_log[n].value = [status |-> "unhealthy", error |-> call_log[n].error]
        /\ call_log[n].failed = "nothing" =>
               /\ call_log[n].value.status = "healthy"
               /\ "latency_ms" \in DOMAIN call_log[n].value

\* A refused connection, then a ping that times out on the client that
\* connect left behind, then a healthy answer.
C23_Witness ==
    /\ Len(call_log) = 3
    /\ call_log[1].failed = "connect"
    /\ call_log[1].value = [status |-> "unhealthy", error |-> "Connection refused"]
    /\ call_log[2].failed = "ping"
    /\ call_log[2].value.error = "Timeout reading from socket"
    /\ call_log[3].value.status = "healthy"
    /\ call_log[3].value.latency_ms = 2

\* The emit calls of one event type, in call order, and where they stand
\* among all emit calls of the execution.
EmitPositions(e, event_type) ==
    {k \in 1 .. Len(emitted[e]) : emitted[e][k].event_type = event_type}
RECURSIVE StepsEmitted(_, _, _)
StepsEmitted(e, event_type, n) ==
    IF n = 0 THEN <<>>
    ELSE StepsEmitted(e, event_type, n - 1)
         \o (IF emitted[e][n].event_type = event_type
             THEN <<emitted[e][n].step_id>> ELSE <<>>)

\* The step_ids whose workflow_step_completed emit pushed its event to the
\* list events:workflow_step_completed, oldest first.
RECURSIVE Delivered(_, _)
Delivered(e, n) ==
    IF n = 0 THEN <<>>
    ELSE Delivered(e, n - 1)
         \o (IF /\ bus_log[n].op = "publish"
                /\ bus_log[n].event.event_type = "workflow_step_completed"
                /\ bus_log[n].event.workflow_id = e
             THEN <<bus_log[n].event.step_id>> ELSE <<>>)

\* The index in the step list of a step_id.
IndexOf(e, step_id) == CHOOSE i \in StepIndexes(e) : steps[e][i].step_id = step_id

\* C31: the emit calls of workflow_step_completed of an execution name, in
\* call order, the steps steps[0 .. current_step-1]: one call per recorded
\* step, in list order, each for a step whose result is in results (the
\* call is made in the step that stores the result, after the store); every
\* one of them precedes the emit call of workflow_completed; and the events
\* that reached the list are among them, in list order, at most one per step.
C31_LifecycleOrder ==
    /\ [](\A e \in Execs :
              LET done == StepsEmitted(e, "workflow_step_completed", Len(emitted[e]))
                  sent == Delivered(e, Len(bus_log)) IN
              /\ Len(done) = current_step[e]
              /\ \A k \in 1 .. Len(done) :
                     /\ done[k] = steps[e][k].step_id
                     /\ done[k] \in DOMAIN results[e]
              /\ DOMAIN results[e] = {done[k] : k \in 1 .. Len(done)}
              /\ \A c \in EmitPositions(e, "workflow_completed") :
                     \A k \in EmitPositions(e, "workflow_step_completed") : k < c
              /\ \A k \in 1 .. Len(sent) :
                     /\ sent[k] \in DOMAIN results[e]
                     /\ \A l \in 1 .. Len(sent) :
                            k < l => IndexOf(e, sent[k]) < IndexOf(e, sent[l]))
    /\ [][\A e \in Execs :
              (Len(emitted'[e]) > Len(emitted[e])
               /\ emitted'[e][Len(emitted'[e])].event_type = "workflow_step_completed")
              => /\ emitted'[e][Len(emitted'[e])].step_id \in DOMAIN results'[e]
                 /\ emitted'[e][Len(emitted'[e])].step_id \notin DOMAIN results[e]]_vars

\* A github request completed: four workflow_step_completed calls in list
\* order, then workflow_completed; the publish of the second one had failed,
\* so three of the four events reached the list.
C31_Witness ==
    \E e \in Execs :
        /\ status[e] = COMPLETED
        /\ pc[e] = "returned"
        /\ StepsEmitted(e, "workflow_step_completed", Len(emitted[e]))
               = <<"nlp_processing", "validate_permissions",
                   "execute_github_operation", "send_result_notification">>
        /\ emitted[e][5].event_type = "workflow_completed"
        /\ Delivered(e, Len(bus_log))
               = <<"nlp_processing", "execute_github_operation", "send_result_notification">>

\* The step is reported failed: errors holds its "Step ... failed" entry or
\* emit(workflow_step_failed) was called for it.
ReportedFailed(e, i) ==
    \/ HasStepFailed(e, steps[e][i].step_id)
    \/ \E k \in EmitPositions(e, "workflow_step_failed") :
           emitted[e][k].step_id = steps[e][i].step_id

\* C32 as stated: a step that is reported failed has no entry in results,
\* and its retry_count counts failures of its own executor only: every one
\* of its executor's invocations failed and nothing else was counted.
C32_Original ==
    \A e \in Execs : \A i \in StepIndexes(e) :
        ReportedFailed(e, i) =>
            /\ ~Recorded(e, i)
            /\ steps[e][i].retry_count = invocations[e][i]

\* C33 as stated: 0 <= retry_count <= max_retries for every step, whatever
\* max_retries >= 0 the step was configured with.
C33_Original ==
    \A e \in Execs : \A i \in StepIndexes(e) :
        /\ 0 <= steps[e][i].retry_count
        /\ steps[e][i].retry_count <= steps[e][i].max_retries

\* The most failures the except branch counts for a step: the count is
\* raised before it is compared with max_retries, so the first failure is
\* counted even when max_retries is 0.
MostFailures(step) == IF step.max_retries >= 1 THEN step.max_retries ELSE 1

\* C33: for every step 0 <= retry_count <= max_retries when max_retries >= 1,
\* and retry_count <= 1 when max_retries = 0; retry_count changes only by +1,
\* only for the step execute_workflow holds as its local current_step, and
\* only in a step of a running execute_workflow.
C33_RetryCountBounds ==
    /\ [](\A e \in Execs : \A i \in StepIndexes(e) :
              /\ 0 <= steps[e][i].retry_count
              /\ steps[e][i].retry_count <= MostFailures(steps[e][i]))
    /\ [][\A e \in Execs : \A i \in StepIndexes(e) :
              steps'[e][i].retry_count # steps[e][i].retry_count =>
                  /\ steps'[e][i].retry_count = steps[e][i].retry_count + 1
                  /\ pc[e] \in Awaits \cup {"loop"}
                  /\ i = cur'[e] + 1]_vars

\* A step configured with max_retries = 0 failed at its only attempt, which
\* left its retry_count at 1.
C33_Witness ==
    \E e \in Execs : \E i \in StepIndexes(e) :
        /\ steps[e][i].max_retries = 0
        /\ steps[e][i].retry_count = 1
        /\ invocations[e][i] = 1
        /\ status[e] = FAILED
        /\ pc[e] = "returned"

\* No task of the engine is between two awaits: the states another task on
\* the event loop, such as a caller of get_workflow_status, can observe.
Observable == \A e \in Execs : pc[e] \in Awaits \cup {"idle", "returned", "raised", "cancelled"}

\* C34 as stated: at every point where it can be observed, an execution in
\* the active set has status processing, and get_workflow_status does not
\* return completed or failed for it.
C34_Original ==
    Observable =>
        \A e \in active_workflows :
            /\ status[e] = PROCESSING
            /\ "status" \in DOMAIN get_workflow_status(e)[1] =>
                   get_workflow_status(e)[1].status \notin {COMPLETED, FAILED}

\* The emit calls of the two terminal lifecycle events.
TerminalEmits(e) ==
    EmitPositions(e, "workflow_completed") \cup EmitPositions(e, "workflow_step_failed")

\* C35 as stated: an execution of handle_request whose task was cancelled
\* has status processing, no terminal lifecycle event was emitted for it and
\* its end_time is unset.
C35_Original ==
    \A e \in cancelled :
        ByHandleRequest(e) =>
            /\ status[e] = PROCESSING
            /\ TerminalEmits(e) = {}
            /\ ~end_time[e]

\* C35: no execution ever has status cancelled; the cancellation of a task
\* and everything after it leave the execution's status, end_time, results
\* and errors as they were and make no emit call; so an execution cancelled
\* before it reached a terminal status keeps pending or processing, without
\* terminal event and without end_time, and one that shows completed or
\* failed was cancelled while it awaited the emit of its terminal event.
C35_CancellationKeepsStatus ==
    /\ [](\A e \in Execs :
              /\ status[e] # CANCELLED
              /\ e \in cancelled =>
                     /\ pc[e] = "cancelled"
                     /\ status[e] \in {PENDING, PROCESSING} =>
                            TerminalEmits(e) = {} /\ ~end_time[e]
                     /\ status[e] \in {COMPLETED, FAILED} =>
                            /\ Len(emitted[e]) \in TerminalEmits(e)
                            /\ Cardinality(TerminalEmits(e)) = 1
                     /\ ByHandleRequest(e) => status[e] # PENDING)
    /\ [][\A e \in cancelled' :
              /\ status'[e] = status[e]
              /\ end_time'[e] = end_time[e]
              /\ emitted'[e] = emitted[e]
              /\ results'[e] = results[e]
              /\ errors'[e] = errors[e]]_vars

\* A github request cancelled while its third step waited for the action
\* collaborator: two results, status processing, nothing terminal.
C35_Witness ==
    \E e \in cancelled :
        /\ ByHandleRequest(e)
        /\ current_step[e] = 2
        /\ steps[e][3].step_type = "github"
        /\ invocations[e][3] = 1
        /\ status[e] = PROCESSING
        /\ TerminalEmits(e) = {}
        /\ ~end_time[e]
        /\ e \in active_workflows

\* The messages published to final_notifications for an execution.
FinalNotifications(e) ==
    {k \in 1 .. Len(queue["final_notifications"]) :
         queue["final_notifications"][k].data.workflow_id = e}

\* The execution runs one of the lists create_workflow_steps builds for
\* github, code and pr requests, which end with a notification step.
BuiltIn(e) ==
    /\ ByHandleRequest(e)
    /\ steps[e][Len(steps[e])].step_type = "notification"

\* C36 as stated: a built-in execution that is completed has exactly one
\* message in final_notifications, published before the emit call of
\* workflow_completed, and one that is failed has none.
C36_Original ==
    \A e \in Execs :
        BuiltIn(e) =>
            /\ status[e] = COMPLETED => Cardinality(FinalNotifications(e)) = 1
            /\ EmitPositions(e, "workflow_completed") # {} =>
                   Cardinality(FinalNotifications(e)) = 1
            /\ status[e] = FAILED => FinalNotifications(e) = {}

\* The steps whose executor sends a status update before anything else.
Announcing(e) ==
    {i \in StepIndexes(e) : steps[e][i].step_type \in {"nlp", "github", "code_generation"}}

\* The status updates in operation_updates that an attempt of a step pushed.
StatusUpdates(e, i) ==
    {k \in 1 .. Len(queue["operation_updates"]) :
         queue["operation_updates"][k].data
             = Notice("status", e, steps[e][i].step_id)}

\* C37 as stated: once the execution has ended, the number of status
\* updates published for a step equals the number of invocations of its
\* executor.
C37_Original ==
    \A e \in Execs :
        Ended(e) =>
            \A i \in Announcing(e) : Cardinality(StatusUpdates(e, i)) = invocations[e][i]

\* C37: every invocation of the executor of an nlp, github or
\* code_generation step begins with the publish of a status update, awaited
\* before anything else; that publish pushes exactly one message for the
\* step when it returns, also when the same step has pushed one before, and
\* none when it raises or is cancelled, which ends the attempt; the
\* collaborator is called only after the push.  So a step has one status
\* update per attempt whose publish returned: never more than its executor
\* was invoked, and fewer only by attempts that failed or stopped.
C37_StatusUpdatePerAttempt ==
    /\ [](\A e \in Execs : \A i \in Announcing(e) :
              /\ Cardinality(StatusUpdates(e, i)) <= invocations[e][i]
              /\ Cardinality(StatusUpdates(e, i))
                     >= invocations[e][i] - steps[e][i].retry_count - 1
              /\ (Ended(e) /\ steps[e][i].retry_count = 0) =>
                     Cardinality(StatusUpdates(e, i)) = invocations[e][i])
    /\ [][\A e \in Execs :
              /\ \A i \in Announcing(e) :
                     invocations'[e][i] # invocations[e][i] =>
                         /\ pc'[e] = "status_update"
                         /\ cur'[e] + 1 = i
                         /\ UNCHANGED queue
              /\ (pc[e] = "status_update" /\ pc'[e] # "status_update") =>
                     \/ /\ queue' = [queue EXCEPT !["operation_updates"] =
                               <<QueueMessage(Notice("status", e,
                                                     steps[e][cur[e] + 1].step_id))>> \o @]
                        /\ pc'[e] \in {"collaborator", "emit_step_completed",
                                       "sleeping", "emit_step_failed"}
                     \/ /\ UNCHANGED queue
                        /\ \/ pc'[e] = "cancelled"
                           \/ steps'[e][cur[e] + 1].retry_count
                                  = steps[e][cur[e] + 1].retry_count + 1
              /\ (pc'[e] = "collaborator" /\ pc[e] # "collaborator") =>
                     /\ pc[e] = "status_update"
                     /\ Len(queue'["operation_updates"])
                            = Len(queue["operation_updates"]) + 1]_vars
    /\ [][queue'["operation_updates"] # queue["operation_updates"] =>
              \E e \in Execs : pc[e] = "status_update" /\ pc'[e] # "status_update"]_vars

\* A step whose collaborator raised at each of its three attempts: three
\* invocations, three status updates.
C37_Witness ==
    \E e \in Execs : \E i \in Announcing(e) :
        /\ invocations[e][i] = 3
        /\ steps[e][i].retry_count = 3
        /\ Cardinality(StatusUpdates(e, i)) = 3
        /\ status[e] = FAILED
        /\ pc[e] = "returned"

\* This step ends an emit by an exception that reaches the caller: the
\* execution neither goes on where a returned emit leads nor was cancelled.
EmitRaisedToCaller(e) ==
    /\ pc[e] \in EmitAwaits
    /\ pc'[e] \notin {pc[e], AfterEmit(pc[e]), "cancelled"}

\* C38: a step in which an emit raises to its caller (its push to
\* events:<event_type> failed) leaves every list as it was, calls no handler,
\* whatever is registered for the event's type, and leaves the registry as
\* it was; the caller gets the exception: inside the try block the except
\* branch counts a failure of the current step, outside it execute_workflow
\* ends with the exception.
C38_FailedPushDispatchesNothing ==
    [][\A e \in Execs :
          EmitRaisedToCaller(e) =>
              /\ queue' = queue
              /\ bus_log' = bus_log
              /\ event_handlers' = event_handlers
              /\ IF pc[e] = "emit_step_completed"
                 THEN /\ pc'[e] \in {"sleeping", "emit_step_failed"}
                      /\ steps'[e][cur[e] + 1].retry_count
                             = steps[e][cur[e] + 1].retry_count + 1
                 ELSE pc'[e] = "raised"]_vars

\* Two handlers are registered for workflow_step_completed; the first emit
\* of that event raised: nothing is in the lists of the bus, no handler was
\* called, and the step just recorded has been charged a retry.
C38_Witness ==
    /\ RegisteredFor("workflow_step_completed") = <<"handle_step_completion", "audit">>
    /\ bus_log = <<>>
    /\ queue["events:workflow_step_completed"] = <<>>
    /\ \E e \in Execs :
           /\ Len(emitted[e]) = 1
           /\ emitted[e][1].event_type = "workflow_step_completed"
           /\ pc[e] = "sleeping"
           /\ steps[e][1].retry_count = 1
           /\ Recorded(e, 1)

\* The step types execute_step has an executor for.
HasExecutor(step_type) ==
    step_type \in {"nlp", "validation", "github", "code_generation",
                   "pr_analysis", "notification"}

\* execute_workflow has ended after the loop reached step i.
EndedAt(e, i) == Ended(e) /\ invocations[e][i] >= 1

\* C39 as stated: when the execution has ended at a step whose type has no
\* executor, the step was attempted max_retries times, every attempt
\* raised, the execution is failed with an error naming the step and the
\* type, the step has no result and no later step has run.
C39_Original ==
    \A e \in Execs : \A i \in StepIndexes(e) :
        (~HasExecutor(steps[e][i].step_type) /\ EndedAt(e, i)) =>
            /\ invocations[e][i] = steps[e][i].max_retries
            /\ steps[e][i].retry_count = invocations[e][i]
            /\ status[e] = FAILED
            /\ errors[e] = <<StepFailedMessage(steps[e][i].step_id,
                                              "Unknown step type: " \o steps[e][i].step_type)>>
            /\ ~Recorded(e, i)
            /\ \A j \in StepIndexes(e) : j > i => invocations[e][j] = 0

\* C39: a step whose type has no executor never gets a result, and every
\* attempt of it raises (its retry_count equals its invocations); when the
\* execution has ended at such a step, the step was attempted max_retries
\* times, once when max_retries is 0, with the backoff delays 2, 4, ...
\* between the attempts, the status is failed, errors holds the one entry
\* "Step <step_id> failed: Unknown step type: <step_type>", which
\* workflow_step_failed was emitted with, and no later step has run.
C39_UnknownStepType ==
    \A e \in Execs : \A i \in StepIndexes(e) :
        ~HasExecutor(steps[e][i].step_type) =>
            /\ ~Recorded(e, i)
            /\ steps[e][i].retry_count = invocations[e][i]
            /\ \A j \in StepIndexes(e) : j > i => invocations[e][j] = 0
            /\ EndedAt(e, i) =>
                   /\ invocations[e][i] = MostFailures(steps[e][i])
                   /\ StepDelays(e, steps[e][i].step_id)
                          = [k \in 1 .. invocations[e][i] - 1 |-> BackoffBase ^ k]
                   /\ status[e] = FAILED
                   /\ current_step[e] = i - 1
                   /\ errors[e] = <<StepFailedMessage(steps[e][i].step_id,
                                       "Unknown step type: " \o steps[e][i].step_type)>>
                   /\ emitted[e][Len(emitted[e])]
                          = Event("workflow_step_failed", e, steps[e][i].step_id,
                                  "Unknown step type: " \o steps[e][i].step_type)

\* A list of two steps of a type without executor, max_retries = 3: the
\* first was attempted three times, with sleeps of 2 and 4, the second
\* never; the execution returned failed.
C39_Witness ==
    \E e \in Execs :
        /\ Len(steps[e]) = 2
        /\ steps[e][1].step_type = "mystery"
        /\ steps[e][1].max_retries = 3
        /\ invocations[e] = <<3, 0>>
        /\ StepDelays(e, "s1") = <<2, 4>>
        /\ status[e] = FAILED
        /\ results[e] = EmptyMap
        /\ pc[e] = "returned"

====
